---- MODULE Spec2Model ----
(***************************************************************************)
(* A model of the git-integration core of vscode-gitlens:                  *)
(*   - the command executor (gitCommand / gitCommandCore and the           *)
(*     pendingCommands single-flight registry), specification SpecExec;    *)
(*   - the command builders of Git that call it, specification             *)
(*     SpecBuilders, and those that take a revision, specification         *)
(*     SpecRevisions;                                                      *)
(*   - the static functions and constants of Git (id classification,       *)
(*     shortenSha, splitPath, the format strings), specification SpecGit,  *)
(*     and Git.validateVersion, specification SpecVersion;                 *)
(*   - FileHistoryNode, specification SpecHistory, and                     *)
(*     DiffWithPreviousCommand.execute, specification SpecCommand;         *)
(*   - the GitContextTracker state machine, specification SpecTracker,     *)
(*     its reaction to editor changes alone, specification SpecEditors,    *)
(*     to editor and document notifications, specification SpecDocuments,  *)
(*     its remote flags, specification SpecRemotes, and its disposal,      *)
(*     specification SpecDisposal.                                         *)
(* Strings are TLA+ strings; Len, SubSeq and \o are used on them the way   *)
(* the source uses length, substring and concatenation.                    *)
(***************************************************************************)
EXTENDS Integers, Sequences, FiniteSets, Bags, TLC

VARIABLES
    pendingCommands,  \* Map<string, Promise<string>>: command key -> promise (process id)
    procs,            \* the git processes spawned so far, by id (one promise each)
    calls,            \* the gitCommand calls made so far, by id
    microtasks,       \* promise continuations queued and not yet run (call ids)
    \* GitContextTracker
    context,          \* _context: editor, repo, repoDisposable, uri, state {dirty, tracked, blameable}
    listeners,        \* _listenersDisposable !== undefined
    registered,       \* how many sets of editor/document/blame/git listeners are live
    disposed,         \* dispose() has been called
    runs,             \* the updateContext invocations suspended at an await (a bag)
    leaked,           \* repositories with a live onDidChange subscription _context no longer holds
    fired,            \* the BlameabilityChangeEvent fired by the last step (reason "none": none)
    \* the tracker's environment
    activeEditor,     \* window.activeTextEditor
    isDirty,          \* the documents whose isDirty is true
    gitEnabled,       \* the setting git.enabled
    editorTimer,      \* pending debounced onActiveTextEditorChanged call: its argument, or "idle"
    docTimer,         \* pending debounced onTextDocumentChanged call: its document, or "idle"
    script,           \* observer of the editor/dirty/clean scenario
    limit,            \* how many updateContext invocations the run lets be suspended at once
    remotes,          \* the command contexts ActiveHasRemotes and HasRemotes, the updateRemotes
                      \* invocations suspended at an await, and the repositories with remotes
    \* the static functions and constants of Git
    arg,              \* the arguments of the function applied, by name
    ret,              \* what it returned (kind "none": not applied yet)
    \* the views and commands built on GitService
    node,             \* a FileHistoryNode: its subscription, its explorer's autoRefresh, the
                      \* getChildren invocations suspended at an await and the last result
    diffWithPrevious  \* a DiffWithPreviousCommand.execute invocation: where it is suspended,
                      \* its locals and how it ended

execVars == <<pendingCommands, procs, calls, microtasks>>

trackerVars == <<context, listeners, registered, disposed, runs, leaked, fired,
                 activeEditor, isDirty, gitEnabled, editorTimer, docTimer, script, limit,
                 remotes>>

gitVars == <<arg, ret>>

viewVars == <<node, diffWithPrevious>>

vars == <<execVars, trackerVars, gitVars, viewVars>>

(***************************************************************************)
(* Bounds of the model.                                                    *)
(***************************************************************************)
MaxCalls == 3

(***************************************************************************)
(* Strings.                                                                *)
(***************************************************************************)
\* Array.prototype.join(sep)
RECURSIVE Join(_, _)
Join(arr, sep) ==
    IF arr = <<>> THEN ""
    ELSE IF Len(arr) = 1 THEN arr[1]
    ELSE arr[1] \o sep \o Join(Tail(arr), sep)

\* pat occurs in s at position i
MatchAt(s, pat, i) ==
    /\ i >= 1
    /\ i + Len(pat) - 1 <= Len(s)
    /\ SubSeq(s, i, i + Len(pat) - 1) = pat

\* RegExp.prototype.test for the shapes GitWarnings uses: a literal, or
\* <pre>.*?<post> (two literals with anything in between).
RegexTest(re, s) ==
    \E i \in 1..(Len(s) + 1) :
        /\ MatchAt(s, re.pre, i)
        /\ \/ re.post = ""
           \/ \E j \in (i + Len(re.pre))..(Len(s) + 1) : MatchAt(s, re.post, j)

GitWarnings == <<
    [pre |-> "Not a git repository", post |-> ""],
    [pre |-> "is outside repository", post |-> ""],
    [pre |-> "no such path", post |-> ""],
    [pre |-> "does not have any commits", post |-> ""],
    [pre |-> "Path '", post |-> "' does not exist in"],
    [pre |-> "Path '", post |-> "' exists on disk, but not in"],
    [pre |-> "no upstream configured for branch", post |-> ""] >>

(***************************************************************************)
(* The static functions and constants of class Git.  A function is applied *)
(* to the arguments in arg and leaves what it returns in ret.              *)
(***************************************************************************)
MaxCaretDigits == 2

ShaLength == 40

\* String.prototype.substring(from, to) and substring(from), 0-based
Substring(s, from, to) ==
    LET a == IF from > Len(s) THEN Len(s) ELSE from
        b == IF to > Len(s) THEN Len(s) ELSE to
    IN IF a >= b THEN "" ELSE SubSeq(s, a + 1, b)

SubstringFrom(s, from) == Substring(s, from, Len(s))

\* s.charAt(i), 0-based
CharAt(s, i) == Substring(s, i, i + 1)

\* String.prototype.indexOf(ch) for a one-character ch: -1 when absent
IndexOf(s, ch) ==
    LET at == {i \in 0..(Len(s) - 1) : CharAt(s, i) = ch}
    IN IF at = {} THEN -1 ELSE CHOOSE i \in at : \A j \in at : i <= j

StartsWith(s, prefix) == Substring(s, 0, Len(prefix)) = prefix

EndsWith(s, suffix) ==
    Len(suffix) <= Len(s) /\ SubstringFrom(s, Len(s) - Len(suffix)) = suffix

Digits == {"0", "1", "2", "3", "4", "5", "6", "7", "8", "9"}

HexDigits == Digits \cup {"a", "b", "c", "d", "e", "f"}

\* (\^[0-9]*?)?? anchored on both sides: nothing, or a caret and digits
CaretGroup(s) ==
    \/ s = ""
    \/ /\ CharAt(s, 0) = "^"
       /\ \A i \in 1..(Len(s) - 1) : CharAt(s, i) \in Digits

\* RegExp.prototype.test for /^[chars]{40}(\^[0-9]*?)??<one of tails>$/
TestIdRegex(re, s) ==
    /\ Len(s) >= ShaLength
    /\ \A i \in 0..(ShaLength - 1) : CharAt(s, i) \in re.chars
    /\ \E tail \in re.tails :
          /\ EndsWith(SubstringFrom(s, ShaLength), tail)
          /\ CaretGroup(Substring(s, ShaLength, Len(s) - Len(tail)))

\* static shaRegex = /^[0-9a-f]{40}(\^[0-9]*?)??( -)?$/
shaRegex == [chars |-> HexDigits, tails |-> {"", " -"}]

\* static stagedUncommittedRegex = /^[0]{40}(\^[0-9]*?)??:$/
stagedUncommittedRegexColonOptional == [chars |-> {"0"}, tails |-> {"", ":"}]

stagedUncommittedRegex == [chars |-> {"0"}, tails |-> {":"}]

\* static uncommittedRegex = /^[0]{40}(\^[0-9]*?)??:??$/
uncommittedRegex == [chars |-> {"0"}, tails |-> {"", ":"}]

stagedUncommittedSha == "0000000000000000000000000000000000000000:"

uncommittedSha == "0000000000000000000000000000000000000000"

isSha(sha) == TestIdRegex(shaRegex, sha)

isStagedUncommitted(sha) == TestIdRegex(stagedUncommittedRegex, sha)

isUncommitted(sha) == TestIdRegex(uncommittedRegex, sha)

\* static shortenSha(sha)
shortenShaTruncating(sha) ==
    IF isStagedUncommitted(sha) THEN "index"
    ELSE IF isUncommitted(sha) THEN ""
    ELSE Substring(sha, 0, 8)

shortenSha(sha) ==
    IF isStagedUncommitted(sha) THEN "index"
    ELSE IF isUncommitted(sha) THEN ""
    ELSE LET index == IndexOf(sha, "^")
         IN IF index > 6
            THEN Substring(sha, 0, 6) \o SubstringFrom(sha, index)
            ELSE Substring(sha, 0, 8)

(***************************************************************************)
(* The ids the functions are applied to.                                   *)
(***************************************************************************)
\* the digit strings of at most n digits, over two digits
RECURSIVE DigitStrings(_)
DigitStrings(n) ==
    IF n = 0 THEN {""}
    ELSE LET shorter == DigitStrings(n - 1)
         IN shorter \cup {d \o s : d \in {"1", "2"}, s \in {x \in shorter : Len(x) = n - 1}}

\* a parent marker: nothing, or ^ and digits
CaretParts == {""} \cup {"^" \o d : d \in DigitStrings(MaxCaretDigits)}

HexBases == {
    "0000000000000000000000000000000000000000",
    "0000000000000000000000000000000000000001",
    "a1b2c3d4e5f60718293a4b5c6d7e8f9012345678" }

\* 40 hex characters with an optional ^N and/or ':' suffix, and log's ' -' ending
HexIds == {b \o c \o t : b \in HexBases, c \in CaretParts, t \in {"", ":", " -"}}

\* branch names and abbreviated ids
OtherIds == {"master", "HEAD^", "a1b2c3^1", "a1b2c3d^2", "a1b2c3d4e5f6"}

ShaArgs == {[kind |-> "sha", sha |-> id] : id \in HexIds \cup OtherIds}

NoReturn == [fn |-> "none"]

\* the three classification predicates applied to one id
Classify ==
    /\ arg.kind = "sha"
    /\ ret' = [fn |-> "classify",
               isSha |-> isSha(arg.sha),
               isStagedUncommitted |-> isStagedUncommitted(arg.sha),
               isUncommitted |-> isUncommitted(arg.sha)]
    /\ UNCHANGED <<arg, execVars, trackerVars, viewVars>>

ShortenSha ==
    /\ arg.kind = "sha"
    /\ ret' = [fn |-> "shortenSha", value |-> shortenSha(arg.sha)]
    /\ UNCHANGED <<arg, execVars, trackerVars, viewVars>>

(***************************************************************************)
(* Paths.  An optional string is a record: Undefined, or Some(s).          *)
(***************************************************************************)
Undefined == [defined |-> FALSE, value |-> ""]

Some(s) == [defined |-> TRUE, value |-> s]

UpperCase == "ABCDEFGHIJKLMNOPQRSTUVWXYZ"

LowerCase == "abcdefghijklmnopqrstuvwxyz"

\* String.prototype.toLowerCase, one character
LowerChar(ch) ==
    LET i == IndexOf(UpperCase, ch)
    IN IF i = -1 THEN ch ELSE CharAt(LowerCase, i)

RECURSIVE ToLowerCase(_)
ToLowerCase(s) ==
    IF s = "" THEN "" ELSE LowerChar(CharAt(s, 0)) \o ToLowerCase(SubstringFrom(s, 1))

\* fileName.replace(/\\/g, '/')
RECURSIVE ReplaceBackslashes(_)
ReplaceBackslashes(s) ==
    IF s = "" THEN ""
    ELSE (IF CharAt(s, 0) = "\\" THEN "/" ELSE CharAt(s, 0))
             \o ReplaceBackslashes(SubstringFrom(s, 1))

\* static normalizePath(fileName): fileName && fileName.replace(/\\/g, '/')
normalizePath(fileName) ==
    IF fileName.defined /\ fileName.value # ""
    THEN Some(ReplaceBackslashes(fileName.value))
    ELSE fileName

\* the index of the last character of path that is not a '/', from index 1 on
\* (-1: none)
LastNameChar(path) ==
    LET at == {i \in 1..(Len(path) - 1) : CharAt(path, i) # "/"}
    IN IF at = {} THEN -1 ELSE CHOOSE i \in at : \A j \in at : j <= i

\* path.dirname(path), POSIX
dirname(path) ==
    IF path = "" THEN "."
    ELSE LET hasRoot == CharAt(path, 0) = "/"
             slashes == {i \in 1..(LastNameChar(path) - 1) : CharAt(path, i) = "/"}
             end == IF slashes = {} THEN -1
                    ELSE CHOOSE i \in slashes : \A j \in slashes : j <= i
         IN IF end = -1 THEN (IF hasRoot THEN "/" ELSE ".")
            ELSE IF hasRoot /\ end = 1 THEN "//"
            ELSE Substring(path, 0, end)

\* path.basename(path), POSIX
basename(path) ==
    LET names == {i \in 0..(Len(path) - 1) : CharAt(path, i) # "/"}
    IN IF names = {} THEN ""
       ELSE LET last == CHOOSE i \in names : \A j \in names : j <= i
                slashes == {i \in 0..last : CharAt(path, i) = "/"}
                start == IF slashes = {} THEN 0
                         ELSE 1 + CHOOSE i \in slashes : \A j \in slashes : j <= i
            IN Substring(path, start, last + 1)

\* static splitPath(fileName, repoPath, extract = true): [fileName, repoPath]
splitPathCaseSensitive(fileName, repoPath, extract) ==
    IF repoPath.defined /\ repoPath.value # ""
    THEN LET file == normalizePath(Some(fileName)).value
             root == normalizePath(repoPath).value
             normalizedRepoPath == IF EndsWith(root, "/") THEN root ELSE root \o "/"
         IN [file |-> IF StartsWith(file, normalizedRepoPath)
                      THEN SubstringFrom(file, Len(normalizedRepoPath))
                      ELSE file,
             root |-> Some(root)]
    ELSE [file |-> normalizePath(Some(IF extract THEN basename(fileName) ELSE fileName)).value,
          root |-> normalizePath(IF extract THEN Some(dirname(fileName)) ELSE repoPath)]

splitPathAlwaysExtract(fileName, repoPath, extract) ==
    IF repoPath.defined /\ repoPath.value # ""
    THEN LET file == normalizePath(Some(fileName)).value
             root == normalizePath(repoPath).value
             normalizedRepoPath ==
                 ToLowerCase(IF EndsWith(root, "/") THEN root ELSE root \o "/")
         IN [file |-> IF StartsWith(ToLowerCase(file), normalizedRepoPath)
                      THEN SubstringFrom(file, Len(normalizedRepoPath))
                      ELSE file,
             root |-> Some(root)]
    ELSE [file |-> normalizePath(Some(basename(fileName))).value,
          root |-> normalizePath(Some(dirname(fileName)))]

splitPath(fileName, repoPath, extract) ==
    IF repoPath.defined /\ repoPath.value # ""
    THEN LET file == normalizePath(Some(fileName)).value
             root == normalizePath(repoPath).value
             normalizedRepoPath ==
                 ToLowerCase(IF EndsWith(root, "/") THEN root ELSE root \o "/")
         IN [file |-> IF StartsWith(ToLowerCase(file), normalizedRepoPath)
                      THEN SubstringFrom(file, Len(normalizedRepoPath))
                      ELSE file,
             root |-> Some(root)]
    ELSE [file |-> normalizePath(Some(IF extract THEN basename(fileName) ELSE fileName)).value,
          root |-> normalizePath(IF extract THEN Some(dirname(fileName)) ELSE repoPath)]

FileNames == {
    "/repo/src/a.ts", "/Repo/src/a.ts", "/repository/a.ts", "\\repo\\src\\a.ts",
    "/a/b/c.ts", "c.ts", "/c.ts", "/a/b\\c.ts", "/a/b/" }

RepoPaths == {Undefined, Some(""), Some("/repo"), Some("/repo/"), Some("/REPO"), Some("\\repo")}

PathArgs ==
    {[kind |-> "path", fileName |-> f, repoPath |-> r, extract |-> e] :
        f \in FileNames, r \in RepoPaths, e \in BOOLEAN}

SplitPath ==
    /\ arg.kind = "path"
    /\ LET r == splitPath(arg.fileName, arg.repoPath, arg.extract)
       IN ret' = [fn |-> "splitPath", file |-> r.file, root |-> r.root]
    /\ UNCHANGED <<arg, execVars, trackerVars, viewVars>>

(***************************************************************************)
(* The format strings of log and stash list.                               *)
(***************************************************************************)
defaultBlameParams == <<"blame", "--root", "--incremental">>

defaultLogParams == <<"log", "--name-status", "--full-history", "-M",
    "--format=%H -%nauthor %an%nauthor-date %at%nparents %P%nsummary %B%nfilename ?">>

defaultStashParamsWithParents == <<"stash", "list", "--name-status", "--full-history", "-M",
    "--format=%H -%nauthor-date %at%nparents %P%nsummary %B%nfilename ?">>

defaultStashParams == <<"stash", "list", "--name-status", "--full-history", "-M",
    "--format=%H -%nauthor-date %at%nreflog-selector %gd%nsummary %B%nfilename ?">>

\* the first index (0-based) at which sep occurs in s, -1 when it does not
IndexOfString(s, sep) ==
    LET at == {i \in 0..(Len(s) - Len(sep)) : Substring(s, i, i + Len(sep)) = sep}
    IN IF at = {} THEN -1 ELSE CHOOSE i \in at : \A j \in at : i <= j

\* String.prototype.split(sep)
RECURSIVE Split(_, _)
Split(s, sep) ==
    LET i == IndexOfString(s, sep)
    IN IF i = -1 THEN <<s>>
       ELSE <<Substring(s, 0, i)>> \o Split(SubstringFrom(s, i + Len(sep)), sep)

\* the fields git prints for a parameter list: its --format, one field per %n
FormatOf(params) ==
    LET fmt == {i \in DOMAIN params : StartsWith(params[i], "--format=")}
    IN IF fmt = {} THEN <<>>
       ELSE Split(SubstringFrom(params[CHOOSE i \in fmt : TRUE], Len("--format=")), "%n")

ParamsOf(name) ==
    IF name = "log" THEN defaultLogParams
    ELSE IF name = "stash" THEN defaultStashParams
    ELSE defaultBlameParams

FormatArgs == {[kind |-> "format", params |-> n] : n \in {"log", "stash", "blame"}}

FormatFields ==
    /\ arg.kind = "format"
    /\ ret' = [fn |-> "fields", value |-> FormatOf(ParamsOf(arg.params))]
    /\ UNCHANGED <<arg, execVars, trackerVars, viewVars>>

(***************************************************************************)
(* Git.validateVersion.  git.version is the text `git --version` printed   *)
(* after "git version ", e.g. "2.14.1".                                    *)
(***************************************************************************)
MaxVersion == 3

\* parseInt(s, 10) of a string without sign or leading blanks: the number its
\* leading digits spell, NaN (here -1, which no comparison below accepts as
\* a number) when it has none
RECURSIVE LeadingDigits(_, _)
LeadingDigits(s, i) ==
    IF i < Len(s) /\ CharAt(s, i) \in Digits THEN LeadingDigits(s, i + 1) ELSE i

DigitValue(ch) == CHOOSE n \in 0..9 : ToString(n) = ch

RECURSIVE NumberOf(_, _)
NumberOf(s, n) ==
    IF n = 0 THEN 0 ELSE 10 * NumberOf(s, n - 1) + DigitValue(CharAt(s, n - 1))

NaN == -1

parseInt(s) ==
    LET n == LeadingDigits(s, 0)
    IN IF n = 0 THEN NaN ELSE NumberOf(s, n)

\* a >= b in JavaScript, for a possibly NaN
GreaterOrEqual(a, b) == a # NaN /\ a >= b

\* static validateVersion(major, minor)
validateVersion(version, major, minor) ==
    LET parts == Split(version, ".")
        gitMajor == parseInt(parts[1])
        \* const [gitMajor, gitMinor] = ...: undefined when there is no second part
        gitMinor == IF Len(parts) >= 2 THEN parseInt(parts[2]) ELSE NaN
    IN GreaterOrEqual(gitMajor, major) /\ GreaterOrEqual(gitMinor, minor)

\* the versions git reports, and the versions asked for
GitVersions ==
    {ToString(a) \o "." \o ToString(b) \o t : a, b \in 0..MaxVersion, t \in {".1", ".0.windows.1"}}

VersionArgs ==
    {[kind |-> "version", version |-> v, major |-> a, minor |-> b] :
        v \in GitVersions, a, b \in 0..MaxVersion}

ValidateVersion ==
    /\ arg.kind = "version"
    /\ ret' = [fn |-> "validateVersion",
               value |-> validateVersion(arg.version, arg.major, arg.minor)]
    /\ UNCHANGED <<arg, execVars, trackerVars, viewVars>>

VersionInit ==
    /\ arg \in VersionArgs
    /\ ret = NoReturn

GitArgs == ShaArgs \cup PathArgs \cup FormatArgs

GitInit ==
    /\ arg \in GitArgs
    /\ ret = NoReturn

\* no function of Git applied
GitAbsent ==
    /\ arg = [kind |-> "none"]
    /\ ret = NoReturn

GitNext ==
    \/ Classify
    \/ ShortenSha
    \/ SplitPath
    \/ FormatFields

(***************************************************************************)
(* The executor's inputs.                                                  *)
(***************************************************************************)
\* (cwd, args) pairs callers pass to gitCommand
Requests == {
    [cwd |-> "/r", args |-> <<"add", "a b">>],
    [cwd |-> "/r", args |-> <<"add", "a", "b">>],
    [cwd |-> "/q", args |-> <<"add", "a b">>] }

\* the GitCommandOptions callers pass: willHandleErrors and encoding
CallOptions == {
    [willHandleErrors |-> FALSE, encoding |-> "utf8"],
    [willHandleErrors |-> TRUE, encoding |-> "utf8"],
    [willHandleErrors |-> FALSE, encoding |-> "latin1"] }

\* ex.toString() of the failures a git process ends with
FailureTexts == {
    "Error: fatal: Path 'a b' does not exist in 'HEAD'",
    "Error: fatal: bad revision 'HEAD~1'" }

NoValue == [kind |-> "none", proc |-> 0, mode |-> "", dec |-> ""]

(***************************************************************************)
(* The command builders of Git: each passes gitCommand a cwd, an argument  *)
(* vector and options, and some handle its failure themselves.             *)
(***************************************************************************)
Builders == {"diff", "show", "revparse_currentBranch", "stash_list"}

\* options.encoding as the callers of Git.diff and Git.show pass it
RequestedEncodings == {Undefined, Some("utf8"), Some("latin1"), Some("klingon")}

\* the encodings iconv-lite has a codec for, among the names used here
KnownEncodings == {"utf8", "binary", "latin1"}

\* iconv.encodingExists(encoding)
encodingExists(encoding) == encoding \in KnownEncodings

\* Git.getEncoding: the encoding if it is given and exists, else 'utf8'
getEncoding(encoding) ==
    IF encoding.defined /\ encodingExists(encoding.value) THEN encoding.value ELSE "utf8"

\* options.encoding || 'utf8'
OrUtf8(encoding) ==
    IF encoding.defined /\ encoding.value # "" THEN encoding.value ELSE "utf8"

\* the repository, file and revision the builders are called with
BuilderRepoPath == "/r"

BuilderFileName == "/r/src/a.ts"

BuilderRef == "HEAD"

\* Git.show: the (cwd, args) it passes to gitCommand
ShowRequest(repoPath, fileName, branchOrSha) ==
    LET split == splitPath(fileName, Some(repoPath), TRUE)
        ref == IF isStagedUncommitted(branchOrSha) THEN ":" ELSE branchOrSha
        args == IF EndsWith(ref, ":")
                THEN ref \o "./" \o split.file
                ELSE ref \o ":./" \o split.file
    IN [cwd |-> split.root.value, args |-> <<"show", args>>]

\* the (cwd, args) each builder passes to gitCommand
BuilderRequest(b) ==
    CASE b = "diff" ->
            [cwd |-> BuilderRepoPath,
             args |-> <<"diff", "--diff-filter=M", "-M", "--no-ext-diff">>
                          \o <<"--", BuilderFileName>>]
      [] b = "show" -> ShowRequest(BuilderRepoPath, BuilderFileName, BuilderRef)
      [] b = "revparse_currentBranch" ->
            [cwd |-> BuilderRepoPath,
             args |-> <<"rev-parse", "--abbrev-ref", "--symbolic-full-name", "@", "@{u}">>]
      [] b = "stash_list" -> [cwd |-> BuilderRepoPath, args |-> defaultStashParams]

\* the options each builder passes to gitCommand
BuilderOptions(b, requested) ==
    CASE b = "diff" -> [willHandleErrors |-> FALSE, encoding |-> OrUtf8(requested)]
      [] b = "show" -> [willHandleErrors |-> TRUE, encoding |-> OrUtf8(requested)]
      [] b = "revparse_currentBranch" -> [willHandleErrors |-> TRUE, encoding |-> "utf8"]
      [] b = "stash_list" -> [willHandleErrors |-> FALSE, encoding |-> "utf8"]

\* only Git.diff and Git.show take an encoding
TakesEncoding(b) == b \in {"diff", "show"}

BuilderRequests == {BuilderRequest(b) : b \in Builders}

\* ex.toString() of the failures the builders' git processes end with
BuilderFailureTexts == {
    "Error: fatal: HEAD does not point to a branch",
    "Error: fatal: no upstream configured for branch 'master'\nhint: see git branch --set-upstream-to",
    "Error: fatal: Path 'src/a.ts' does not exist in 'HEAD'",
    "Error: fatal: bad revision 'HEAD~1'" }

\* ex.toString() of the error iconv.decode throws for a name it has no codec for
DecodeErrorText(encoding) == "Error: Encoding not recognized: '" \o encoding \o "'"

DecodeErrorTexts == {DecodeErrorText(e.value) : e \in RequestedEncodings \ {Undefined}}

\* a builder has not returned yet
NoResult == [kind |-> "none", text |-> ""]

(***************************************************************************)
(* The builders that take a revision.  Each is the list of gitCommand      *)
(* calls it makes, in order: builder, (cwd, args) request, willHandleErrors*)
(* and encoding; stdin marks the call whose process gets the output of the *)
(* call before it on its standard input.                                   *)
(***************************************************************************)
\* if (sha): an optional string that is neither undefined nor ''
Truthy(sha) == sha.defined /\ sha.value # ""

GitCall(builder, cwd, args, willHandleErrors, stdin) ==
    [builder |-> builder, req |-> [cwd |-> cwd, args |-> args],
     willHandleErrors |-> willHandleErrors, encoding |-> "utf8", stdin |-> stdin]

\* Git.show: if (Git.isUncommitted(branchOrSha)) throw new Error(...)
showNeverThrows(branchOrSha) == FALSE

showThrows(branchOrSha) ==
    LET ref == IF isStagedUncommitted(branchOrSha) THEN ":" ELSE branchOrSha
    IN isUncommitted(ref)

show(repoPath, fileName, branchOrSha) ==
    LET r == ShowRequest(repoPath, fileName, branchOrSha)
    IN <<GitCall("show", r.cwd, r.args, TRUE, FALSE)>>

\* Git.blame with the default options
blame(repoPath, fileName, sha) ==
    LET split == splitPath(fileName, Some(repoPath), TRUE)
        params == defaultBlameParams
        staged == Truthy(sha) /\ isStagedUncommitted(sha.value)
        pushed == IF ~Truthy(sha) THEN params
                  ELSE IF staged THEN params \o <<"--contents", "-">>
                  ELSE Append(params, sha.value)
    IN (IF staged THEN show(repoPath, fileName, ":") ELSE <<>>)
       \o <<GitCall("blame", split.root.value, pushed \o <<"--", split.file>>, FALSE, staged)>>

\* Git.diff with the default options
diffKeepsStaged(repoPath, fileName, sha1, sha2) ==
    LET params == <<"diff", "--diff-filter=M", "-M", "--no-ext-diff">>
        p1 == IF Truthy(sha1) THEN Append(params, sha1.value) ELSE params
        p2 == IF Truthy(sha2) THEN Append(p1, sha2.value) ELSE p1
    IN <<GitCall("diff", repoPath, p2 \o <<"--", fileName>>, FALSE, FALSE)>>

diff(repoPath, fileName, sha1, sha2) ==
    LET params == <<"diff", "--diff-filter=M", "-M", "--no-ext-diff">>
        p1 == IF Truthy(sha1)
              THEN Append(params, IF isStagedUncommitted(sha1.value) THEN "--staged"
                                  ELSE sha1.value)
              ELSE params
        p2 == IF Truthy(sha2)
              THEN Append(p1, IF isStagedUncommitted(sha2.value) THEN "--staged"
                              ELSE sha2.value)
              ELSE p1
    IN <<GitCall("diff", repoPath, p2 \o <<"--", fileName>>, FALSE, FALSE)>>

\* if (sha && !Git.isStagedUncommitted(sha)) { reverse ? ... : params.push(sha) }
PushRevision(params, sha, reverse) ==
    IF Truthy(sha) /\ ~isStagedUncommitted(sha.value)
    THEN IF reverse
         THEN params \o <<"--reverse", "--ancestry-path", sha.value \o "..HEAD">>
         ELSE Append(params, sha.value)
    ELSE params

\* `-n${maxCount}` when maxCount is given (0: undefined) and reverse is off
PushMaxCount(params, maxCount, reverse) ==
    IF maxCount # 0 /\ ~reverse THEN Append(params, "-n" \o ToString(maxCount)) ELSE params

\* Git.log
log(repoPath, sha, maxCount, reverse) ==
    LET params == PushMaxCount(defaultLogParams \o <<"-m">>, maxCount, reverse)
    IN <<GitCall("log", repoPath, PushRevision(params, sha, reverse), FALSE, FALSE)>>

\* Git.log_file with options {maxCount, reverse}: no line range, skipMerges unset
log_file(repoPath, fileName, sha, maxCount, reverse) ==
    LET split == splitPath(fileName, Some(repoPath), TRUE)
        p1 == PushMaxCount(defaultLogParams \o <<"--follow">>, maxCount, reverse)
        p2 == Append(p1, IF ~Truthy(sha) \/ maxCount > 2 THEN "--no-merges" ELSE "-m")
    IN <<GitCall("log_file", split.root.value,
                 PushRevision(p2, sha, reverse) \o <<"--", split.file>>, FALSE, FALSE)>>

\* Git.log_shortstat
log_shortstat(repoPath, sha) ==
    <<GitCall("log_shortstat", repoPath,
              PushRevision(<<"log", "--shortstat", "--oneline">>, sha, FALSE), FALSE, FALSE)>>

\* Git.ls_files
ls_files(repoPath, fileName, sha) ==
    LET params == IF Truthy(sha) /\ ~isStagedUncommitted(sha.value)
                  THEN <<"ls-files", "--with-tree=" \o sha.value>>
                  ELSE <<"ls-files">>
    IN <<GitCall("ls_files", repoPath, Append(params, fileName), TRUE, FALSE)>>

RevisionBuilders == {"blame", "diff", "log", "log_file", "log_shortstat", "ls_files", "show"}

\* the revisions the builders are called with
Revisions == {
    Undefined,
    Some(BuilderRef),
    Some(uncommittedSha),
    Some(stagedUncommittedSha),
    Some("0000000000000000000000000000000000000000^1:") }

\* a call of a revision-taking builder: sha2 is Git.diff's second revision,
\* maxCount (0: undefined) and reverse are the options of Git.log and Git.log_file
RevisionArgs ==
    {[kind |-> "revision", builder |-> b, sha |-> s, sha2 |-> s2,
      maxCount |-> n, reverse |-> r] :
        b \in RevisionBuilders, s \in Revisions, s2 \in Revisions, n \in {0, 3},
        r \in BOOLEAN}

\* the arguments mean something to the builder called
RevisionArgOK(a) ==
    /\ a.builder = "diff" \/ a.sha2 = Undefined
    /\ a.builder \in {"log", "log_file"} \/ (a.maxCount = 0 /\ ~a.reverse)
    /\ a.builder # "show" \/ a.sha.defined

\* the builder of a throws before it calls gitCommand
RevisionThrows(a) == a.builder = "show" /\ showThrows(a.sha.value)

\* the gitCommand calls the builder of a makes
RevisionCalls(a) ==
    CASE a.builder = "blame" -> blame(BuilderRepoPath, BuilderFileName, a.sha)
      [] a.builder = "diff" -> diff(BuilderRepoPath, BuilderFileName, a.sha, a.sha2)
      [] a.builder = "log" -> log(BuilderRepoPath, a.sha, a.maxCount, a.reverse)
      [] a.builder = "log_file" ->
            log_file(BuilderRepoPath, BuilderFileName, a.sha, a.maxCount, a.reverse)
      [] a.builder = "log_shortstat" -> log_shortstat(BuilderRepoPath, a.sha)
      [] a.builder = "ls_files" -> ls_files(BuilderRepoPath, BuilderFileName, a.sha)
      [] a.builder = "show" ->
            IF showThrows(a.sha.value) THEN <<>>
            ELSE show(BuilderRepoPath, BuilderFileName, a.sha.value)

\* ex.toString() of the failures the revision builders' git processes end with
RevisionFailureTexts == {
    "Error: fatal: Path 'src/a.ts' does not exist in 'HEAD'",
    "Error: fatal: Path 'src/a.ts' exists on disk, but not in 'HEAD'",
    "Error: fatal: bad revision 'HEAD'" }

(***************************************************************************)
(* gitCommandCore, up to its await.                                        *)
(***************************************************************************)
SafetyPrefix == <<"-c", "core.quotepath=false", "-c", "color.ui=false">>

\* args.splice(0, 0, '-c', 'core.quotepath=false', '-c', 'color.ui=false')
SpliceArgsAtEnd(args) == args \o SafetyPrefix

SpliceArgs(args) == SafetyPrefix \o args

\* `(${options.cwd}): git ` + args.join(' ')
CommandKey(cwd, args) == "(" \o cwd \o "): git " \o Join(SpliceArgs(args), " ")

\* the command key of each request, computed once
KeyTable == [r \in Requests \cup BuilderRequests |-> CommandKey(r.cwd, r.args)]

\* encoding: (opts.encoding === 'utf8') ? 'utf8' : 'binary'
SpawnMode(encoding) == IF encoding = "utf8" THEN "utf8" ELSE "binary"

\* the running process (0: none) whose command key is `command`
RunningFor(command) ==
    LET r == {p \in DOMAIN procs : procs[p].command = command /\ procs[p].status = "running"}
    IN IF r = {} THEN 0 ELSE CHOOSE p \in r : TRUE

\* pendingCommands.get(command): 0 stands for undefined
AlwaysUndefined(command) == 0

PendingGet(command) ==
    IF command \in DOMAIN pendingCommands THEN pendingCommands[command] ELSE 0

\* pendingCommands.delete(command)
PendingDelete(command) ==
    [k \in DOMAIN pendingCommands \ {command} |-> pendingCommands[k]]

\* the executor's state as one value
Executor ==
    [pendingCommands |-> pendingCommands, procs |-> procs, calls |-> calls,
     microtasks |-> microtasks]

\* gitCommandCore from the executor's state e up to its await; command is the
\* command key, found what pendingCommands.get(command) answered, overlap the
\* running process with that key, stdin whether options.stdin is the output of
\* the call before
gitCommandCore(e, builder, requested, req, willHandleErrors, encoding, stdin, command, found, overlap) ==
    LET pid == IF found = 0 THEN Len(e.procs) + 1 ELSE found
        id == Len(e.calls) + 1
        settled == found # 0 /\ e.procs[found].status # "running"
    IN [procs |-> IF found = 0
                  THEN Append(e.procs, [command |-> command,
                                        cwd |-> req.cwd,
                                        args |-> SpliceArgs(req.args),
                                        mode |-> SpawnMode(encoding),
                                        stdin |-> IF stdin THEN Len(e.calls) ELSE 0,
                                        status |-> "running",
                                        text |-> ""])
                  ELSE e.procs,
        pendingCommands |->
            IF found = 0
            THEN [k \in DOMAIN e.pendingCommands \cup {command} |->
                     IF k = command THEN pid ELSE e.pendingCommands[k]]
            ELSE e.pendingCommands,
        calls |-> Append(e.calls, [cwd |-> req.cwd,
                                   args |-> req.args,
                                   willHandleErrors |-> willHandleErrors,
                                   encoding |-> encoding,
                                   command |-> command,
                                   promise |-> pid,
                                   spawned |-> (found = 0),
                                   overlap |-> overlap,
                                   status |-> IF settled THEN "queued" ELSE "awaiting",
                                   value |-> NoValue,
                                   builder |-> builder,
                                   requested |-> requested,
                                   result |-> NoResult]),
        \* awaiting an already settled promise queues the continuation at once
        microtasks |-> IF settled THEN Append(e.microtasks, id) ELSE e.microtasks]

ExecutorBecomes(e) ==
    /\ Len(e.calls) <= MaxCalls
    /\ pendingCommands' = e.pendingCommands
    /\ procs' = e.procs
    /\ calls' = e.calls
    /\ microtasks' = e.microtasks

\* gitCommand(options, ...args) called by `builder` (a Git.* builder, or
\* "gitCommand" for a direct call): gitCommandCore runs to its await.
CallFrom(builder, requested, req, willHandleErrors, encoding) ==
    /\ Len(calls) < MaxCalls
    /\ microtasks = <<>>
    /\ ExecutorBecomes(gitCommandCore(Executor, builder, requested, req, willHandleErrors,
                                      encoding, FALSE, KeyTable[req],
                                      PendingGet(KeyTable[req]),
                                      RunningFor(KeyTable[req])))
    /\ UNCHANGED <<trackerVars, gitVars, viewVars>>

\* A caller runs gitCommand(options, ...args) directly.
Call(req, willHandleErrors, encoding) ==
    CallFrom("gitCommand", Some(encoding), req, willHandleErrors, encoding)

\* A caller runs the builder b, with options.encoding = requested.
Build(b, requested) ==
    /\ TakesEncoding(b) \/ requested = Undefined
    /\ LET o == BuilderOptions(b, requested)
       IN CallFrom(b, requested, BuilderRequest(b), o.willHandleErrors, o.encoding)

(***************************************************************************)
(* A git process ends: its promise settles and the continuations of the    *)
(* calls awaiting it are queued in the order they started to await.        *)
(***************************************************************************)
RECURSIVE Waiters(_, _)
Waiters(pid, from) ==
    IF from > Len(calls) THEN <<>>
    ELSE IF calls[from].promise = pid /\ calls[from].status = "awaiting"
         THEN <<from>> \o Waiters(pid, from + 1)
         ELSE Waiters(pid, from + 1)

Settle(pid, status, text) ==
    /\ pid \in DOMAIN procs
    /\ procs[pid].status = "running"
    /\ microtasks = <<>>
    /\ procs' = [procs EXCEPT ![pid].status = status, ![pid].text = text]
    /\ calls' = [c \in DOMAIN calls |->
                    IF calls[c].promise = pid /\ calls[c].status = "awaiting"
                    THEN [calls[c] EXCEPT !.status = "queued"]
                    ELSE calls[c]]
    /\ microtasks' = Waiters(pid, 1)
    /\ UNCHANGED pendingCommands
    /\ UNCHANGED <<trackerVars, gitVars, viewVars>>

ProcessSucceeds(pid) == Settle(pid, "ok", "")

ProcessFails(pid, text) == Settle(pid, "failed", text)

(***************************************************************************)
(* The continuation of a call: the rest of gitCommandCore, then gitCommand *)
(* and gitCommandDefaultErrorHandler.                                      *)
(***************************************************************************)
\* if (opts.encoding === 'utf8' || opts.encoding === 'binary') return s;
\* return iconv.decode(Buffer.from(s, 'binary'), opts.encoding)
Decoded(pid, encoding) ==
    [kind |-> "text", proc |-> pid, mode |-> procs[pid].mode,
     dec |-> IF encoding = "utf8" \/ encoding = "binary" THEN "" ELSE encoding]

\* the failure of process pid, as thrown by `await promise`
Thrown(pid) == [kind |-> "error", proc |-> pid, mode |-> "", dec |-> ""]

\* the error iconv.decode throws for the output of process pid
DecodeThrown(pid, encoding) ==
    [kind |-> "error", proc |-> pid, mode |-> procs[pid].mode, dec |-> encoding]

\* iconv.decode is reached and has no codec for the encoding
DecodeFails(encoding) ==
    /\ ~(encoding = "utf8" \/ encoding = "binary")
    /\ ~encodingExists(encoding)

\* the exception gitCommandCore throws to call c
Exception(c) ==
    IF procs[calls[c].promise].status = "ok"
    THEN DecodeThrown(calls[c].promise, calls[c].encoding)
    ELSE Thrown(calls[c].promise)

\* ex.toString()
ExToString(ex) == IF ex.dec # "" THEN DecodeErrorText(ex.dec) ELSE procs[ex.proc].text

\* ex.message: toString() without the leading "Error: "
Message(text) == SubstringFrom(text, Len("Error: "))

EmptyString == [kind |-> "empty", proc |-> 0, mode |-> "", dec |-> ""]

ThrowableTexts ==
    FailureTexts \cup BuilderFailureTexts \cup RevisionFailureTexts \cup DecodeErrorTexts

\* for (const warning of GitWarnings) { if (warning.test(msg)) ... }, computed
\* once per failure text
WarningTable ==
    [t \in ThrowableTexts |-> \E w \in DOMAIN GitWarnings : RegexTest(GitWarnings[w], t)]

MatchesWarning(msg) == WarningTable[msg]

\* gitCommandDefaultErrorHandler: '' for an expected warning, else throw ex
gitCommandDefaultErrorHandler(ex) ==
    LET msg == ExToString(ex)
    IN IF msg # "" /\ MatchesWarning(msg) THEN EmptyString ELSE ex

\* gitCommand's outcome for a call whose gitCommandCore threw
HandleAlways(c) == gitCommandDefaultErrorHandler(Exception(c))

gitCommandCatch(c) ==
    IF calls[c].willHandleErrors
    THEN Exception(c)
    ELSE gitCommandDefaultErrorHandler(Exception(c))

(***************************************************************************)
(* What a builder makes of gitCommand's outcome.                           *)
(***************************************************************************)
ReturnsUndefined == [kind |-> "undefined", text |-> ""]

ReturnsString(text) == [kind |-> "string", text |-> text]

\* the builder returns or throws what v is: the text of a process ("value"),
\* the '' of the default handler, or an exception
PassedOn(v) ==
    IF v.kind = "error" THEN [kind |-> "error", text |-> ""]
    ELSE IF v.kind = "empty" THEN ReturnsString("")
    ELSE [kind |-> "value", text |-> ""]

\* the patterns the builders test ex.toString() against, computed once per text
BuilderPatterns == [
    head |-> [pre |-> "HEAD does not point to a branch", post |-> ""],
    upstream |-> [pre |-> "no upstream configured for branch", post |-> ""],
    notIn |-> [pre |-> "Path '", post |-> "' does not exist in"],
    onDisk |-> [pre |-> "Path '", post |-> "' exists on disk, but not in "] ]

PatternTable ==
    [t \in ThrowableTexts |->
        [n \in DOMAIN BuilderPatterns |-> RegexTest(BuilderPatterns[n], t)]]

\* ex.message.split('\n')[0], computed once per text
FirstLineTable == [t \in ThrowableTexts |-> Split(Message(t), "\n")[1]]

\* the catch block of Git.revparse_currentBranch
revparse_currentBranchNoHeadCheck(ex) ==
    LET msg == ExToString(ex)
    IN IF PatternTable[msg].upstream THEN ReturnsString(FirstLineTable[msg])
       ELSE PassedOn(gitCommandDefaultErrorHandler(ex))

revparse_currentBranchCatch(ex) ==
    LET msg == ExToString(ex)
    IN IF PatternTable[msg].head THEN ReturnsUndefined
       ELSE IF PatternTable[msg].upstream THEN ReturnsString(FirstLineTable[msg])
       ELSE PassedOn(gitCommandDefaultErrorHandler(ex))

\* the catch block of Git.show
showCatch(ex) ==
    LET msg == ExToString(ex)
    IN IF PatternTable[msg].notIn \/ PatternTable[msg].onDisk THEN ReturnsUndefined
       ELSE PassedOn(gitCommandDefaultErrorHandler(ex))

\* the catch block of Git.ls_files
ls_filesCatch(ex) == ReturnsString("")

\* what the builder of call c returns when gitCommand's outcome is v
BuilderReturn(c, v) ==
    IF v.kind # "error" THEN PassedOn(v)
    ELSE IF calls[c].builder = "revparse_currentBranch" THEN revparse_currentBranchCatch(v)
    ELSE IF calls[c].builder = "show" THEN showCatch(v)
    ELSE IF calls[c].builder = "ls_files" THEN ls_filesCatch(v)
    ELSE PassedOn(v)

(***************************************************************************)
(* The continuation of a call after its await.                             *)
(***************************************************************************)
Resume ==
    /\ microtasks # <<>>
    /\ LET c == Head(microtasks)
           pid == calls[c].promise
           ok == procs[pid].status = "ok"
           \* return s, or iconv.decode(...); a throw goes to gitCommand's catch
           v == IF ok /\ ~DecodeFails(calls[c].encoding)
                THEN Decoded(pid, calls[c].encoding)
                ELSE gitCommandCatch(c)
       IN \* const s = await promise; pendingCommands.delete(command);
          \* when the await throws the delete is skipped
          /\ pendingCommands' = IF ok THEN PendingDelete(calls[c].command)
                                      ELSE pendingCommands
          /\ calls' = [calls EXCEPT
                          ![c].status = IF v.kind = "error" THEN "rejected" ELSE "resolved",
                          ![c].value = v,
                          ![c].result = BuilderReturn(c, v)]
    /\ microtasks' = Tail(microtasks)
    /\ UNCHANGED procs
    /\ UNCHANGED <<trackerVars, gitVars, viewVars>>

ExecInit ==
    /\ pendingCommands = << >>
    /\ procs = << >>
    /\ calls = << >>
    /\ microtasks = << >>

ExecNext ==
    \/ \E req \in Requests, o \in CallOptions : Call(req, o.willHandleErrors, o.encoding)
    \/ \E pid \in DOMAIN procs : ProcessSucceeds(pid)
    \/ \E pid \in DOMAIN procs, text \in FailureTexts : ProcessFails(pid, text)
    \/ Resume

\* pendingCommands.get(command) and the running process of command, in e
PendingGetIn(e, command) ==
    IF command \in DOMAIN e.pendingCommands THEN e.pendingCommands[command] ELSE 0

RunningIn(e, command) ==
    LET r == {p \in DOMAIN e.procs : e.procs[p].command = command
                                      /\ e.procs[p].status = "running"}
    IN IF r = {} THEN 0 ELSE CHOOSE p \in r : TRUE

\* gitCommand called with k from the executor's state e
GitCall1(e, k) ==
    LET command == CommandKey(k.req.cwd, k.req.args)
    IN gitCommandCore(e, k.builder, Undefined, k.req, k.willHandleErrors, k.encoding,
                      k.stdin, command, PendingGetIn(e, command), RunningIn(e, command))

\* the gitCommand calls ks (two at most) made one after the other
GitCalls(e, ks) ==
    IF Len(ks) = 1 THEN GitCall1(e, ks[1]) ELSE GitCall1(GitCall1(e, ks[1]), ks[2])

\* the builder of arg is called: it throws, or makes its gitCommand calls
Revision ==
    /\ arg.kind = "revision"
    /\ microtasks = <<>>
    /\ IF RevisionThrows(arg)
       THEN /\ ret' = [fn |-> arg.builder, thrown |-> TRUE]
            /\ UNCHANGED execVars
       ELSE /\ Len(calls) < MaxCalls
            /\ ret' = [fn |-> arg.builder, thrown |-> FALSE]
            /\ ExecutorBecomes(GitCalls(Executor, RevisionCalls(arg)))
    /\ UNCHANGED <<arg, trackerVars, viewVars>>

RevisionInit ==
    /\ arg \in RevisionArgs
    /\ RevisionArgOK(arg)
    /\ ret = NoReturn

RevisionNext ==
    \/ Revision
    \/ \E pid \in DOMAIN procs : ProcessSucceeds(pid)
    \/ \E pid \in DOMAIN procs, text \in RevisionFailureTexts : ProcessFails(pid, text)
    \/ Resume

\* the builders in place of direct calls
BuilderNext ==
    \/ \E b \in Builders, requested \in RequestedEncodings : Build(b, requested)
    \/ \E pid \in DOMAIN procs : ProcessSucceeds(pid)
    \/ \E pid \in DOMAIN procs, text \in BuilderFailureTexts : ProcessFails(pid, text)
    \/ Resume

(***************************************************************************)
(* GitContextTracker.                                                      *)
(*                                                                         *)
(* Editors are identified with the file of their document ("none" is an    *)
(* undefined editor).  tracked and blameable are "true", "false" or        *)
(* "undefined", as in ContextState; dirty is a boolean.                    *)
(*                                                                         *)
(* The handlers are operators from the tracker's state t (a record of      *)
(* context, runs, leaked, fired, remotes) to its state after the           *)
(* synchronous part of the handler; each await of updateContext leaves a   *)
(* run in t.runs that a later step resumes.  updateRemotes, which          *)
(* updateContext and onRepoChanged start, reads _context.repo and writes   *)
(* only the command contexts ActiveHasRemotes and HasRemotes; each of its  *)
(* awaits leaves a run in t.remotes.runs.                                  *)
(* setCommandContext(ActiveFileIsTracked / ActiveIsBlameable) mirror       *)
(* state.tracked and state.blameable.                                      *)
(***************************************************************************)
MaxRuns == 1

MaxOverlap == 2

\* how many updateRemotes invocations may be suspended at once
MaxRemoteRuns == 2

Files == {"f1", "f2"}

\* git.getRepository(uri): the repository a file belongs to ("none": undefined)
RepoOf(f) == IF f = "f1" THEN "r1" ELSE "none"

Repos == {RepoOf(f) : f \in Files} \ {"none"}

\* git.getRepositories(): the repositories known, in the order it returns them
KnownRepositories == <<"r1", "r2">>

\* The remote flags: limit is how many updateRemotes invocations the run lets
\* be suspended at once (0: updateRemotes is left out of the run), having the
\* repositories with at least one remote, active and any the values last
\* published for ActiveHasRemotes and HasRemotes ("unset": none yet).
RemoteFlags(bound, having) ==
    [limit |-> bound, having |-> having, active |-> "unset", any |-> "unset",
     runs |-> EmptyBag]

\* what git.isTracked(uri) can answer: git may start or stop tracking a file of
\* a repository at any moment, and tracks no file outside one
IsTrackedAnswers(f) == IF RepoOf(f) # "none" THEN {"true", "false"} ELSE {"false"}

\* git.getCacheEntryKey(uri)
CacheKey(f) == f

\* BlameabilityChangeReason
BlameFailed == "blame-failed"

DocumentChanged == "document-changed"

EditorChanged == "editor-changed"

RepoChanged == "repo-changed"

\* a BlameabilityChangeEvent {blameable, editor, reason}, with the stored
\* blameable it replaced and the force flag it was fired under
NoEvent ==
    [reason |-> "none", blameable |-> "undefined", editor |-> "none",
     prev |-> "undefined", force |-> FALSE]

\* private readonly _context: Context = { state: { dirty: false } }
NewContext ==
    [editor |-> "none", repo |-> "none", repoDisposable |-> "none", uri |-> "none",
     dirty |-> FALSE, tracked |-> "undefined", blameable |-> "undefined"]

\* the tracker's state as one value, with no event fired yet by this step
Tracker ==
    [context |-> context, runs |-> runs, leaked |-> leaked, fired |-> NoEvent,
     remotes |-> remotes]

Becomes(t) ==
    /\ BagCardinality(t.runs) <= limit
    /\ BagCardinality(t.remotes.runs) <= remotes.limit
    /\ limit' = limit
    /\ remotes' = t.remotes
    /\ context' = t.context
    /\ runs' = t.runs
    /\ leaked' = t.leaked
    /\ fired' = t.fired

Bool(b) == IF b THEN "true" ELSE "false"

\* this._context.state.tracked && !this._context.state.dirty
TrackedOnly(tracked, dirty) == tracked

TrackedAndNotDirty(tracked, dirty) ==
    IF tracked = "true" THEN Bool(~dirty) ELSE tracked

\* if (!force && this._context.state.blameable === blameable) return;
AlwaysFires(force, stored, blameable) == FALSE

SkipsEvent(force, stored, blameable) == ~force /\ stored = blameable

updateBlameability(t, reason, blameableArg, force) ==
    LET blameable == IF blameableArg = "undefined"
                     THEN TrackedAndNotDirty(t.context.tracked, t.context.dirty)
                     ELSE blameableArg
    IN IF SkipsEvent(force, t.context.blameable, blameable)
       THEN t
       ELSE [t EXCEPT !.context.blameable = blameable,
                      !.fired = [reason |-> reason,
                                 blameable |-> blameable,
                                 editor |-> t.context.editor,
                                 prev |-> t.context.blameable,
                                 force |-> force]]

SuspendRemotes(t, run) == [t EXCEPT !.remotes.runs = @ (+) SetToBag({run})]

\* the first repository from index i on that is not this._context.repo (0: none)
NextOther(t, i) ==
    LET others == {j \in i..Len(KnownRepositories) : KnownRepositories[j] # t.context.repo}
    IN IF others = {} THEN 0 ELSE CHOOSE j \in others : \A k \in others : j <= k

\* the loop of updateRemotes from index i, up to its next await or to the end
RemotesLoop(t, i) ==
    LET j == NextOther(t, i)
    IN IF j = 0
       THEN [t EXCEPT !.remotes.any = "false"]
       ELSE SuspendRemotes(t, [pc |-> "hasRemotes", repo |-> KnownRepositories[j], index |-> j])

\* updateRemotes up to its first await
updateRemotes(t) ==
    IF t.remotes.limit = 0
    THEN t
    ELSE IF t.context.repo # "none"
         THEN SuspendRemotes(t, [pc |-> "active", repo |-> t.context.repo, index |-> 0])
         ELSE SuspendRemotes([t EXCEPT !.remotes.active = "false"],
                             [pc |-> "getRepositories", repo |-> "none", index |-> 0])

\* updateContext from `if (this._context.state.tracked !== tracked)` on
updateContextTailStoreOnly(t, reason, force, tracked) ==
    IF t.context.tracked # tracked
    THEN [t EXCEPT !.context.tracked = tracked]
    ELSE t

updateContextTail(t, reason, force, tracked) ==
    LET t1 == IF t.context.tracked # tracked
              THEN [t EXCEPT !.context.tracked = tracked]
              ELSE t
    IN updateRemotes(updateBlameability(t1, reason, "undefined", force))

Suspend(t, run) == [t EXCEPT !.runs = @ (+) SetToBag({run})]

\* updateContext up to its first await (or to its end when it awaits nothing).
\* A run keeps what the rest of updateContext reads: reason, force, and the
\* file of its editor's document (of _context.uri on the unforced path).
updateContext(t, reason, editor, force) ==
    IF force \/ t.context.editor # editor
    THEN LET t1 == [t EXCEPT !.context.editor = editor,
                             !.context.repo = "none",
                             !.context.repoDisposable = "none"]
         IN IF editor # "none"
            THEN Suspend(t1, [reason |-> reason, force |-> force,
                              pc |-> "getRepository", file |-> editor])
            ELSE updateContextTail(
                     [t1 EXCEPT !.context.uri = "none",
                                !.context.dirty = FALSE,
                                !.context.blameable = "false"],
                     reason, force, "false")
    ELSE IF t.context.uri # "none"
         THEN Suspend(t, [reason |-> reason, force |-> force,
                          pc |-> "isTracked", file |-> t.context.uri])
         ELSE updateContextTail(t, reason, force, "false")

\* onActiveTextEditorChanged (every editor of the model is a text editor)
onActiveTextEditorChanged(t, editor) ==
    IF editor = t.context.editor
    THEN t
    ELSE updateContext(t, EditorChanged, editor, TRUE)

\* onBlameFailed
onBlameFailedAnyKey(t, key) ==
    IF t.context.editor = "none"
    THEN t
    ELSE updateBlameability(t, BlameFailed, "false", FALSE)

onBlameFailed(t, key) ==
    IF t.context.editor = "none" \/ key # CacheKey(t.context.editor)
    THEN t
    ELSE updateBlameability(t, BlameFailed, "false", FALSE)

\* onRepoChanged
onRepoChangedForced(t) ==
    updateRemotes(updateContext(t, RepoChanged, t.context.editor, TRUE))

onRepoChanged(t) ==
    updateRemotes(updateContext(t, RepoChanged, t.context.editor, FALSE))

\* onTextDocumentChanged; dirtyNow is e.document.isDirty
onTextDocumentChangedAnyDocument(t, document, dirtyNow) ==
    IF t.context.editor = "none"
    THEN t
    ELSE IF t.context.dirty = dirtyNow
    THEN t
    ELSE updateBlameability([t EXCEPT !.context.dirty = dirtyNow],
                            DocumentChanged, "undefined", FALSE)

onTextDocumentChangedNoStore(t, document, dirtyNow) ==
    IF t.context.editor = "none" \/ t.context.editor # document
    THEN t
    ELSE IF t.context.dirty = dirtyNow
    THEN t
    ELSE updateBlameability(t, DocumentChanged, "undefined", FALSE)

onTextDocumentChanged(t, document, dirtyNow) ==
    IF t.context.editor = "none" \/ t.context.editor # document
    THEN t
    ELSE IF t.context.dirty = dirtyNow
    THEN t
    ELSE updateBlameability([t EXCEPT !.context.dirty = dirtyNow],
                            DocumentChanged, "undefined", FALSE)

\* the live listener sets after onConfigurationChanged: the set held in
\* _listenersDisposable is disposed, and a new one is registered when enabled
RegisteredWithoutDispose(count, held, enabled) ==
    count + (IF enabled THEN 1 ELSE 0)

RegisteredAfter(count, held, enabled) ==
    count - (IF held THEN 1 ELSE 0) + (IF enabled THEN 1 ELSE 0)

\* onConfigurationChanged for an event that initializes or affects git.enabled,
\* from `this.updateContext(...)` on: force is `enabled`
onConfigurationChanged(t, enabled, editor) ==
    updateContext(t, EditorChanged, editor, enabled)

(***************************************************************************)
(* The scenario "an editor on a tracked clean file becomes active, its     *)
(* document turns dirty, its document turns clean again", observed while   *)
(* the tracker runs: script.phase is the number of scenario inputs         *)
(* received so far (-1: the run left the scenario), script.file the        *)
(* scenario's file, script.log the events fired since the scenario began,  *)
(* each with the document's isDirty at that time.                          *)
(***************************************************************************)
OffScript == [phase |-> -1, file |-> "none", log |-> <<>>]

Quiet == runs = EmptyBag /\ editorTimer = "idle" /\ docTimer = "idle"

\* the step is none of the scenario's inputs
LeavesScript == script' = OffScript

\* the step is part of processing the scenario's last input
WithinScript ==
    script' = IF script.phase = -1 \/ fired'.reason = "none"
              THEN script
              ELSE [script EXCEPT !.log = Append(@, [blameable |-> fired'.blameable,
                                                     dirty |-> script.file \in isDirty])]

\* the step is the scenario's next input when `next` holds
ScriptInput(next, file) ==
    script' = IF script.phase # -1 /\ Quiet /\ next
              THEN [script EXCEPT !.phase = @ + 1, !.file = file]
              ELSE OffScript

(***************************************************************************)
(* The steps of a suspended updateContext.                                 *)
(***************************************************************************)
Resumed(run) == [Tracker EXCEPT !.runs = @ (-) SetToBag({run})]

\* after `await this.git.getRepository(uri)`, up to `await GitUri.fromUri`
AfterGetRepository(run) ==
    /\ run.pc = "getRepository"
    /\ LET t == Resumed(run)
           repo == RepoOf(run.file)
           t1 == IF repo # "none"
                 THEN [t EXCEPT !.context.repo = repo,
                                !.context.repoDisposable = repo,
                                !.leaked = IF t.context.repoDisposable # "none"
                                           THEN @ \cup {t.context.repoDisposable}
                                           ELSE @]
                 ELSE t
       IN Becomes(Suspend(t1, [run EXCEPT !.pc = "fromUri"]))
    /\ WithinScript
    /\ UNCHANGED <<listeners, registered, activeEditor, isDirty, gitEnabled, editorTimer, docTimer>>
    /\ UNCHANGED <<disposed, execVars, gitVars, viewVars>>

\* after `await GitUri.fromUri(uri, this.git)`, up to `await this.git.isTracked`
AfterFromUri(run) ==
    /\ run.pc = "fromUri"
    /\ LET t == Resumed(run)
           t1 == [t EXCEPT !.context.uri = run.file,
                           !.context.dirty = (run.file \in isDirty)]
       IN Becomes(Suspend(t1, [run EXCEPT !.pc = "isTracked"]))
    /\ WithinScript
    /\ UNCHANGED <<listeners, registered, activeEditor, isDirty, gitEnabled, editorTimer, docTimer>>
    /\ UNCHANGED <<disposed, execVars, gitVars, viewVars>>

\* after `await this.git.isTracked(...)`, to the end of updateContext
AfterIsTracked(run, tracked) ==
    /\ run.pc = "isTracked"
    /\ tracked \in IsTrackedAnswers(run.file)
    /\ Becomes(updateContextTail(Resumed(run), run.reason, run.force, tracked))
    /\ IF tracked = "true" THEN WithinScript ELSE LeavesScript
    /\ UNCHANGED <<listeners, registered, activeEditor, isDirty, gitEnabled, editorTimer, docTimer>>
    /\ UNCHANGED <<disposed, execVars, gitVars, viewVars>>

\* the awaited lookup rejects: updateContext has no handler and ends there
LookupFails(run) ==
    /\ Becomes(Resumed(run))
    /\ LeavesScript
    /\ UNCHANGED <<listeners, registered, activeEditor, isDirty, gitEnabled, editorTimer, docTimer>>
    /\ UNCHANGED <<disposed, execVars, gitVars, viewVars>>

ResumedRemotes(run) == [Tracker EXCEPT !.remotes.runs = @ (-) SetToBag({run})]

\* after `await this._context.repo.hasRemotes()`, up to the next await or the end
AfterActiveHasRemotes(run) ==
    /\ run.pc = "active"
    /\ LET t == ResumedRemotes(run)
           hasRemotes == run.repo \in remotes.having
           t1 == [t EXCEPT !.remotes.active = Bool(hasRemotes)]
       IN Becomes(IF hasRemotes
                  THEN [t1 EXCEPT !.remotes.any = "true"]
                  ELSE SuspendRemotes(t1, [pc |-> "getRepositories", repo |-> "none",
                                           index |-> 0]))
    /\ LeavesScript
    /\ UNCHANGED <<listeners, registered, activeEditor, isDirty, gitEnabled, editorTimer, docTimer>>
    /\ UNCHANGED <<disposed, execVars, gitVars, viewVars>>

\* after `await this.git.getRepositories()`, into the loop
AfterGetRepositories(run) ==
    /\ run.pc = "getRepositories"
    /\ Becomes(RemotesLoop(ResumedRemotes(run), 1))
    /\ LeavesScript
    /\ UNCHANGED <<listeners, registered, activeEditor, isDirty, gitEnabled, editorTimer, docTimer>>
    /\ UNCHANGED <<disposed, execVars, gitVars, viewVars>>

\* after `await repo.hasRemotes()` in the loop, up to the next await or the end
AfterRepoHasRemotes(run) ==
    /\ run.pc = "hasRemotes"
    /\ LET t == ResumedRemotes(run)
       IN Becomes(IF run.repo \in remotes.having
                  THEN [t EXCEPT !.remotes.any = "true"]
                  ELSE RemotesLoop(t, run.index + 1))
    /\ LeavesScript
    /\ UNCHANGED <<listeners, registered, activeEditor, isDirty, gitEnabled, editorTimer, docTimer>>
    /\ UNCHANGED <<disposed, execVars, gitVars, viewVars>>

(***************************************************************************)
(* The environment and the notifications it sends.  Functions.debounce is  *)
(* a trailing debounce: the handler runs once after the quiet period, with *)
(* the arguments of the latest notification.                               *)
(***************************************************************************)
\* window.activeTextEditor changes; the debounced handler is scheduled
ActiveEditorChanges(editor) ==
    /\ editor # activeEditor
    /\ activeEditor' = editor
    /\ editorTimer' = IF registered > 0 THEN editor ELSE editorTimer
    /\ Becomes(Tracker)
    /\ ScriptInput(script.phase = 0 /\ listeners /\ editor # "none" /\ editor \notin isDirty,
                   editor)
    /\ UNCHANGED <<listeners, registered, isDirty, gitEnabled, docTimer>>
    /\ UNCHANGED <<disposed, execVars, gitVars, viewVars>>

\* the debounce of onActiveTextEditorChanged fires with the latest argument
EditorTimerFires ==
    /\ editorTimer # "idle"
    /\ Becomes(onActiveTextEditorChanged(Tracker, editorTimer))
    /\ editorTimer' = "idle"
    /\ WithinScript
    /\ UNCHANGED <<listeners, registered, activeEditor, isDirty, gitEnabled, docTimer>>
    /\ UNCHANGED <<disposed, execVars, gitVars, viewVars>>

\* the handler registered without the debounce: it runs at every notification
DocumentChangesUndebounced(document, dirtyNow) ==
    /\ isDirty' = IF dirtyNow THEN isDirty \cup {document} ELSE isDirty \ {document}
    /\ docTimer' = docTimer
    /\ Becomes(IF registered > 0
               THEN onTextDocumentChanged(Tracker, document, dirtyNow)
               ELSE Tracker)
    /\ ScriptInput(/\ document = script.file
                   /\ listeners
                   /\ \/ script.phase = 1 /\ dirtyNow
                      \/ script.phase = 2 /\ ~dirtyNow,
                   script.file)
    /\ UNCHANGED <<listeners, registered, activeEditor, gitEnabled, editorTimer>>
    /\ UNCHANGED <<disposed, execVars, gitVars, viewVars>>

\* a document changes (an edit, a save, a revert); the debounced handler is scheduled
DocumentChanges(document, dirtyNow) ==
    /\ isDirty' = IF dirtyNow THEN isDirty \cup {document} ELSE isDirty \ {document}
    /\ docTimer' = IF registered > 0 THEN document ELSE docTimer
    /\ Becomes(Tracker)
    /\ ScriptInput(/\ document = script.file
                   /\ listeners
                   /\ \/ script.phase = 1 /\ dirtyNow
                      \/ script.phase = 2 /\ ~dirtyNow,
                   script.file)
    /\ UNCHANGED <<listeners, registered, activeEditor, gitEnabled, editorTimer>>
    /\ UNCHANGED <<disposed, execVars, gitVars, viewVars>>

\* the debounce of onTextDocumentChanged fires with the latest event
DocTimerFires ==
    /\ docTimer # "idle"
    /\ Becomes(onTextDocumentChanged(Tracker, docTimer, docTimer \in isDirty))
    /\ docTimer' = "idle"
    /\ WithinScript
    /\ UNCHANGED <<listeners, registered, activeEditor, isDirty, gitEnabled, editorTimer>>
    /\ UNCHANGED <<disposed, execVars, gitVars, viewVars>>

\* a repository with a live subscription of the tracker fires onDidChange
RepositoryChanges(repo) ==
    /\ repo = context.repoDisposable \/ repo \in leaked
    /\ Becomes(onRepoChanged(Tracker))
    /\ LeavesScript
    /\ UNCHANGED <<listeners, registered, activeEditor, isDirty, gitEnabled, editorTimer, docTimer>>
    /\ UNCHANGED <<disposed, execVars, gitVars, viewVars>>

\* git.onDidBlameFail fires with a key
BlameFails(key) ==
    /\ registered > 0
    /\ Becomes(onBlameFailed(Tracker, key))
    /\ LeavesScript
    /\ UNCHANGED <<listeners, registered, activeEditor, isDirty, gitEnabled, editorTimer, docTimer>>
    /\ UNCHANGED <<disposed, execVars, gitVars, viewVars>>

\* git.enabled changes: onConfigurationChanged disposes the listeners,
\* registers new ones when enabled, and re-evaluates the active editor
ConfigurationChanges ==
    /\ ~disposed
    /\ gitEnabled' = ~gitEnabled
    /\ listeners' = ~gitEnabled
    /\ registered' = RegisteredAfter(registered, listeners, ~gitEnabled)
    /\ Becomes(onConfigurationChanged(Tracker, ~gitEnabled, activeEditor))
    /\ LeavesScript
    /\ UNCHANGED <<activeEditor, isDirty, editorTimer, docTimer>>
    /\ UNCHANGED <<disposed, execVars, gitVars, viewVars>>

\* a configuration change that does not affect git.enabled: the handler returns
OtherConfigurationChanges ==
    /\ ~disposed
    /\ Becomes(Tracker)
    /\ LeavesScript
    /\ UNCHANGED <<listeners, registered, activeEditor, isDirty, gitEnabled, editorTimer, docTimer>>
    /\ UNCHANGED <<disposed, execVars, gitVars, viewVars>>

\* The state the constructor leaves: onConfigurationChanged(initializingChangeEvent);
\* overlap is how many updateContext invocations the run lets be suspended at
\* once, flags the remote flags before it
ConstructedWith(overlap, flags) ==
    \E editor \in Files \cup {"none"}, dirty \in SUBSET Files, enabled \in BOOLEAN :
        /\ activeEditor = editor
        /\ isDirty = dirty
        /\ gitEnabled = enabled
        /\ listeners = enabled
        /\ registered = RegisteredAfter(0, FALSE, enabled)
        /\ disposed = FALSE
        /\ editorTimer = "idle"
        /\ docTimer = "idle"
        /\ limit = overlap
        /\ LET t == onConfigurationChanged(
                        [context |-> NewContext, runs |-> EmptyBag,
                         leaked |-> {}, fired |-> NoEvent, remotes |-> flags],
                        enabled, editor)
           IN /\ context = t.context
              /\ runs = t.runs
              /\ leaked = t.leaked
              /\ fired = t.fired
              /\ remotes = t.remotes
        \* the scenario starts from a tracker with no active editor
        /\ script = IF editor = "none"
                    THEN [phase |-> 0, file |-> "none", log |-> <<>>]
                    ELSE OffScript

Constructed(overlap) == ConstructedWith(overlap, RemoteFlags(0, {}))

\* dispose(): the listener set held and the configuration listener are
\* disposed; no field of the tracker is reset and nothing pending is cancelled
Dispose ==
    /\ ~disposed
    /\ disposed' = TRUE
    /\ registered' = registered - (IF listeners THEN 1 ELSE 0)
    /\ Becomes(Tracker)
    /\ LeavesScript
    /\ UNCHANGED <<listeners, activeEditor, isDirty, gitEnabled, editorTimer, docTimer>>
    /\ UNCHANGED <<execVars, gitVars, viewVars>>

TrackerInit == Constructed(MaxRuns)

\* a tracker with git.enabled on
EditorsInit == Constructed(MaxOverlap) /\ gitEnabled

\* only the active editor changes, and every lookup succeeds
EditorsNext ==
    \/ \E editor \in Files \cup {"none"} : ActiveEditorChanges(editor)
    \/ EditorTimerFires
    \/ \E run \in BagToSet(runs) : AfterGetRepository(run)
    \/ \E run \in BagToSet(runs) : AfterFromUri(run)
    \/ \E run \in BagToSet(runs), tracked \in {"true", "false"} : AfterIsTracked(run, tracked)

\* only editors and documents change, and every lookup succeeds
DocumentsNext ==
    \/ \E editor \in Files \cup {"none"} : ActiveEditorChanges(editor)
    \/ EditorTimerFires
    \/ \E document \in Files, dirtyNow \in BOOLEAN : DocumentChanges(document, dirtyNow)
    \/ DocTimerFires
    \/ \E run \in BagToSet(runs) : AfterGetRepository(run)
    \/ \E run \in BagToSet(runs) : AfterFromUri(run)
    \/ \E run \in BagToSet(runs), tracked \in {"true", "false"} : AfterIsTracked(run, tracked)

\* editors change, repositories change, every lookup succeeds, and the remote
\* flags are observed
RemotesInit ==
    \E having \in SUBSET {KnownRepositories[i] : i \in DOMAIN KnownRepositories} :
        ConstructedWith(MaxRuns, RemoteFlags(MaxRemoteRuns, having)) /\ gitEnabled

RemotesNext ==
    \/ \E editor \in Files \cup {"none"} : ActiveEditorChanges(editor)
    \/ EditorTimerFires
    \/ \E run \in BagToSet(runs) : AfterGetRepository(run)
    \/ \E run \in BagToSet(runs) : AfterFromUri(run)
    \/ \E run \in BagToSet(runs), tracked \in {"true", "false"} : AfterIsTracked(run, tracked)
    \/ \E repo \in Repos : RepositoryChanges(repo)
    \/ \E run \in BagToSet(remotes.runs) : AfterActiveHasRemotes(run)
    \/ \E run \in BagToSet(remotes.runs) : AfterGetRepositories(run)
    \/ \E run \in BagToSet(remotes.runs) : AfterRepoHasRemotes(run)

TrackerNext ==
    \/ \E editor \in Files \cup {"none"} : ActiveEditorChanges(editor)
    \/ EditorTimerFires
    \/ \E document \in Files, dirtyNow \in BOOLEAN : DocumentChanges(document, dirtyNow)
    \/ DocTimerFires
    \/ \E repo \in Repos : RepositoryChanges(repo)
    \/ \E key \in Files : BlameFails(key)
    \/ ConfigurationChanges
    \/ OtherConfigurationChanges
    \/ \E run \in BagToSet(runs) : AfterGetRepository(run)
    \/ \E run \in BagToSet(runs) : AfterFromUri(run)
    \/ \E run \in BagToSet(runs), tracked \in {"true", "false"} : AfterIsTracked(run, tracked)
    \/ \E run \in BagToSet(runs) : LookupFails(run)

(***************************************************************************)
(* FileHistoryNode (views/fileHistoryNode.ts).  The explorer, the          *)
(* repository and GitService are its environment: explorer.autoRefresh is  *)
(* toggled from outside, and what getLogForFile, isFileUncommitted and     *)
(* getStatusForFile answer is an input of the step that receives it.       *)
(***************************************************************************)
\* how many commits a log holds at most
MaxCommits == 2

\* how many getChildren invocations are suspended at once at most
MaxChildrenRuns == 2

\* the commits git knows for the file: sha and previousSha
Commit(sha, previousSha) == [sha |-> sha, previousSha |-> previousSha]

Commits ==
    {Commit("a1", Undefined), Commit("b2", Some("a1")), Commit("c3", Some("b2"))}

RECURSIVE CommitLists(_)
\* the lists of at most n distinct commits, in every order of emission
CommitLists(n) ==
    IF n = 0 THEN {<<>>}
    ELSE LET shorter == CommitLists(n - 1)
         IN shorter \cup {Append(l, c) : l \in shorter, c \in Commits}

Distinct(l) == \A i, j \in 1..Len(l) : i # j => l[i].sha # l[j].sha

\* GitLog: commits is a Map keyed by sha, iterated in insertion order
GitLog(commits) == [defined |-> TRUE, commits |-> commits]

UndefinedLog == [defined |-> FALSE, commits |-> <<>>]

Logs == {UndefinedLog} \cup {GitLog(l) : l \in {m \in CommitLists(MaxCommits) : Distinct(m)}}

\* GitStatusFile, as far as the views read it
GitStatusFile(indexStatus) == [defined |-> TRUE, indexStatus |-> indexStatus]

NoStatus == [defined |-> FALSE, indexStatus |-> ""]

Statuses == {NoStatus, GitStatusFile("M"), GitStatusFile("A")}

MessageNode(text) == [type |-> "MessageNode", label |-> text]

CommitFileNode(commit) == [type |-> "CommitFileNode", label |-> commit.sha]

\* the commit getChildren makes up for the staged changes
StagedCommit == Commit(stagedUncommittedSha, Some("HEAD"))

NewNode(autoRefresh, uncommitted) ==
    [autoRefresh   |-> autoRefresh,    \* explorer.autoRefresh
     uncommitted   |-> uncommitted,    \* explorer.git.isFileUncommitted(this.uri)
     disposable    |-> FALSE,          \* this.disposable !== undefined
     subscriptions |-> 0,              \* Disposable.from(...) made and not disposed
     did           |-> "nothing",      \* what the last updateSubscription did
     runs          |-> EmptyBag,       \* getChildren invocations suspended at an await (a bag)
     returned      |-> NoReturn]       \* what the last call to finish returned

\* the mutant: a subscription is made whenever autoRefresh is on
updateSubscriptionAnew(n) ==
    IF n.autoRefresh
    THEN [n EXCEPT !.disposable = TRUE, !.subscriptions = @ + 1, !.did = "subscribed"]
    ELSE IF n.disposable
         THEN [n EXCEPT !.disposable = FALSE, !.subscriptions = @ - 1, !.did = "disposed"]
         ELSE [n EXCEPT !.did = "nothing"]

\* private updateSubscription()
updateSubscription(n) ==
    IF n.autoRefresh
    THEN IF n.disposable
         THEN [n EXCEPT !.did = "kept"]
         ELSE [n EXCEPT !.disposable = TRUE, !.subscriptions = @ + 1, !.did = "subscribed"]
    ELSE IF n.disposable
         THEN [n EXCEPT !.disposable = FALSE, !.subscriptions = @ - 1, !.did = "disposed"]
         ELSE [n EXCEPT !.did = "nothing"]

\* a getChildren invocation suspended at the await of the log or of the status
Awaits(at, gitLog) == [at |-> at, log |-> gitLog]

\* the mutant: the staged node is pushed whatever the index status is
stagedChildrenAlways(status) ==
    IF status.defined THEN <<CommitFileNode(StagedCommit)>> ELSE <<>>

\* lines 29-46: the node of the staged changes, if any
stagedChildren(status) ==
    IF status.defined /\ status.indexStatus = "M"
    THEN <<CommitFileNode(StagedCommit)>>
    ELSE <<>>

\* line 48: children.push(...Iterables.map(log.commits.values(), ...))
logChildren(gitLog) == [i \in 1..Len(gitLog.commits) |-> CommitFileNode(gitLog.commits[i])]

ChildrenReturn(gitLog, uncommitted, status, children) ==
    [fn |-> "getChildren", thrown |-> FALSE, log |-> gitLog, uncommitted |-> uncommitted,
     status |-> status, children |-> children]

\* async getChildren(), up to the await of getLogForFile
getChildren ==
    /\ BagCardinality(node.runs) < MaxChildrenRuns
    /\ node' = [updateSubscription(node) EXCEPT
                    !.runs = @ (+) SetToBag({Awaits("log", UndefinedLog)})]
    /\ UNCHANGED <<diffWithPrevious, execVars, trackerVars, gitVars>>

\* getChildren resumed with the log
LogArrives(run, gitLog) ==
    /\ run.at = "log"
    /\ IF ~gitLog.defined
       THEN node' = [node EXCEPT !.runs = @ (-) SetToBag({run}),
                                 !.returned = ChildrenReturn(gitLog, node.uncommitted, NoStatus,
                                                  <<MessageNode("No file history")>>)]
       ELSE IF node.uncommitted
            THEN node' = [node EXCEPT !.runs = (@ (-) SetToBag({run}))
                                                   (+) SetToBag({Awaits("status", gitLog)})]
            ELSE node' = [node EXCEPT !.runs = @ (-) SetToBag({run}),
                                      !.returned = ChildrenReturn(gitLog, FALSE, NoStatus,
                                                       logChildren(gitLog))]
    /\ UNCHANGED <<diffWithPrevious, execVars, trackerVars, gitVars>>

\* getChildren resumed with the status of the file
StatusArrives(run, status) ==
    /\ run.at = "status"
    /\ node' = [node EXCEPT !.runs = @ (-) SetToBag({run}),
                            !.returned = ChildrenReturn(run.log, TRUE, status,
                                             stagedChildren(status)
                                                 \o logChildren(run.log))]
    /\ UNCHANGED <<diffWithPrevious, execVars, trackerVars, gitVars>>

\* getChildren rejects when a lookup it awaits does
LookupRejects(run) ==
    /\ node' = [node EXCEPT !.runs = @ (-) SetToBag({run}),
                            !.returned = [fn |-> "getChildren", thrown |-> TRUE]]
    /\ UNCHANGED <<diffWithPrevious, execVars, trackerVars, gitVars>>

\* getTreeItem()
getTreeItem ==
    /\ node' = [updateSubscription(node) EXCEPT !.returned = [fn |-> "getTreeItem"]]
    /\ UNCHANGED <<diffWithPrevious, execVars, trackerVars, gitVars>>

\* private onAutoRefreshChanged(): the handler explorer.onDidChangeAutoRefresh calls
\* for as long as the subscription is held
onAutoRefreshChanged ==
    /\ node.disposable
    /\ node' = updateSubscription(node)
    /\ UNCHANGED <<diffWithPrevious, execVars, trackerVars, gitVars>>

\* the setting explorer.autoRefresh is switched
ToggleAutoRefresh ==
    /\ node' = [node EXCEPT !.autoRefresh = ~@]
    /\ UNCHANGED <<diffWithPrevious, execVars, trackerVars, gitVars>>

NodeInit == \E autoRefresh, uncommitted \in BOOLEAN : node = NewNode(autoRefresh, uncommitted)

NodeAbsent == node = NewNode(FALSE, FALSE)

NodeNext ==
    \/ getChildren
    \/ \E run \in BagToSet(node.runs), gitLog \in Logs : LogArrives(run, gitLog)
    \/ \E run \in BagToSet(node.runs), status \in Statuses : StatusArrives(run, status)
    \/ \E run \in BagToSet(node.runs) : LookupRejects(run)
    \/ getTreeItem
    \/ onAutoRefreshChanged
    \/ ToggleAutoRefresh

(***************************************************************************)
(* DiffWithPreviousCommand.execute (commands/diffWithPrevious.ts).  What   *)
(* getCommandUri, GitUri.fromUri, getLogForFile, isFileUncommitted and     *)
(* getStatusForFile answer is an input of the step that receives it.       *)
(***************************************************************************)
\* GitService.deletedSha
deletedSha == "ffffffffffffffffffffffffffffffffffffffff"

\* args.commit: a GitCommit, or undefined
GitCommit(type, sha, previousSha) ==
    [defined |-> TRUE, type |-> type, sha |-> sha, previousSha |-> previousSha]

NoCommit == [defined |-> FALSE, type |-> "", sha |-> "", previousSha |-> Undefined]

\* a commit of the log as args.commit
FromLog(c) == GitCommit("file", c.sha, c.previousSha)

CommitArgs ==
    {NoCommit,
     GitCommit("file", "a1", Undefined),
     GitCommit("file", "b2", Some("a1")),
     GitCommit("branch", "b2", Some("a1")),
     GitCommit("branch", "d4", Undefined),
     GitCommit("branch", deletedSha, Undefined),
     GitCommit("branch", stagedUncommittedSha, Undefined)}

\* gitUri.sha as GitUri.fromUri answers it
UriShas ==
    {Undefined, Some("b2"), Some("d4"), Some(deletedSha), Some(stagedUncommittedSha)}

Pending == [kind |-> "pending", what |-> "", lhs |-> "", rhs |-> ""]

\* return undefined
NoAction == [kind |-> "none", what |-> "", lhs |-> "", rhs |-> ""]

\* return Messages.show...WarningMessage(...)
Warning(what) == [kind |-> "warning", what |-> what, lhs |-> "", rhs |-> ""]

\* return window.showErrorMessage(...)
ErrorMessage == [kind |-> "error", what |-> "Unable to open compare", lhs |-> "", rhs |-> ""]

\* return commands.executeCommand(...)
Dispatched(what, lhs, rhs) == [kind |-> "dispatched", what |-> what, lhs |-> lhs, rhs |-> rhs]

\* the promise execute returned is rejected
Rejected(what) == [kind |-> "rejected", what |-> what, lhs |-> "", rhs |-> ""]

NewCommand ==
    [pc                  |-> "idle",     \* the await the invocation is suspended at
     uri                 |-> FALSE,      \* getCommandUri(uri, editor) !== undefined
     commit              |-> NoCommit,   \* args.commit
     range               |-> FALSE,      \* args.range !== undefined
     gitUriSha           |-> Undefined,  \* gitUri.sha
     sha                 |-> Undefined,  \* sha
     isStagedUncommitted |-> FALSE,      \* isStagedUncommitted
     log                 |-> UndefinedLog,
     outcome             |-> Pending]    \* how the invocation ended

Ends(c, outcome) == [c EXCEPT !.pc = "idle", !.outcome = outcome]

\* log.commits.get(sha)
CommitsGet(gitLog, sha) ==
    LET at == {i \in 1..Len(gitLog.commits) : gitLog.commits[i].sha = sha}
    IN IF at = {} THEN NoCommit ELSE FromLog(gitLog.commits[CHOOSE i \in at : TRUE])

\* Iterables.first(log.commits.values())
First(gitLog) == IF gitLog.commits = <<>> THEN NoCommit ELSE FromLog(gitLog.commits[1])

\* lines 119-133: args.commit.repoPath throws a TypeError when args.commit is undefined
finalDiffWith(c) ==
    IF ~c.commit.defined
    THEN Ends(c, Rejected("TypeError"))
    ELSE Ends(c, Dispatched("DiffWith",
                            IF c.commit.previousSha.defined
                            THEN c.commit.previousSha.value
                            ELSE deletedSha,
                            c.commit.sha))

\* lines 27-37: execute, up to the await of GitUri.fromUri
Execute(uri, commit, range) ==
    /\ diffWithPrevious.pc = "idle"
    /\ LET c == [NewCommand EXCEPT !.uri = uri, !.commit = commit, !.range = range]
       IN diffWithPrevious' = IF ~uri
                     THEN Ends(c, NoAction)
                     ELSE IF ~commit.defined \/ commit.type # "file" \/ range
                          THEN [c EXCEPT !.pc = "fromUri"]
                          ELSE finalDiffWith(c)
    /\ UNCHANGED <<node, execVars, trackerVars, gitVars>>

\* lines 37-50: resumed with the gitUri, up to the await of getLogForFile
FromUriResolves(gitUriSha) ==
    /\ diffWithPrevious.pc = "fromUri"
    /\ LET sha == IF ~diffWithPrevious.commit.defined
                  THEN gitUriSha
                  ELSE Some(diffWithPrevious.commit.sha)
       IN diffWithPrevious' =
              IF sha = Some(deletedSha)
              THEN Ends([diffWithPrevious EXCEPT !.gitUriSha = gitUriSha, !.sha = sha],
                        Warning("Commit has no previous commit"))
              ELSE IF sha.defined /\ isStagedUncommitted(sha.value)
                   THEN [diffWithPrevious EXCEPT !.gitUriSha = Undefined, !.sha = Undefined,
                                        !.isStagedUncommitted = TRUE, !.pc = "log"]
                   ELSE [diffWithPrevious EXCEPT !.gitUriSha = gitUriSha, !.sha = sha,
                                                 !.pc = "log"]
    /\ UNCHANGED <<node, execVars, trackerVars, gitVars>>

\* lines 50-56: resumed with the log
LogResolves(gitLog) ==
    /\ diffWithPrevious.pc = "log"
    /\ diffWithPrevious' =
           IF ~gitLog.defined
           THEN Ends(diffWithPrevious, Warning("Unable to open compare"))
           ELSE LET got == IF Truthy(diffWithPrevious.sha)
                           THEN CommitsGet(gitLog, diffWithPrevious.sha.value)
                           ELSE NoCommit
                    c == [diffWithPrevious EXCEPT !.log = gitLog,
                                         !.commit = IF got.defined THEN got ELSE First(gitLog)]
                IN IF ~c.gitUriSha.defined
                   THEN [c EXCEPT !.pc = "uncommitted"]
                   ELSE finalDiffWith(c)
    /\ UNCHANGED <<node, execVars, trackerVars, gitVars>>

\* lines 56-75: resumed with what isFileUncommitted answers
UncommittedResolves(uncommitted) ==
    /\ diffWithPrevious.pc = "uncommitted"
    /\ diffWithPrevious' =
           IF uncommitted
           THEN IF diffWithPrevious.isStagedUncommitted
                THEN IF ~diffWithPrevious.commit.defined
                     THEN Ends(diffWithPrevious, ErrorMessage)
                     ELSE Ends(diffWithPrevious,
                               Dispatched("DiffWith", diffWithPrevious.commit.sha,
                                          stagedUncommittedSha))
                ELSE [diffWithPrevious EXCEPT !.pc = "status"]
           ELSE finalDiffWith(diffWithPrevious)
    /\ UNCHANGED <<node, execVars, trackerVars, gitVars>>

\* lines 75-111: resumed with the status of the file
StatusResolves(status) ==
    /\ diffWithPrevious.pc = "status"
    /\ diffWithPrevious' =
           IF status.defined /\ status.indexStatus = "M"
           THEN IF ~diffWithPrevious.commit.defined
                THEN Ends(diffWithPrevious, ErrorMessage)
                ELSE Ends(diffWithPrevious, Dispatched("DiffWith", stagedUncommittedSha, ""))
           ELSE Ends(diffWithPrevious, Dispatched("DiffWithWorking", "", ""))
    /\ UNCHANGED <<node, execVars, trackerVars, gitVars>>

\* lines 114-117: a lookup awaited inside the try throws
LookupThrows ==
    /\ diffWithPrevious.pc \in {"log", "uncommitted", "status"}
    /\ diffWithPrevious' = Ends(diffWithPrevious, ErrorMessage)
    /\ UNCHANGED <<node, execVars, trackerVars, gitVars>>

CommandInit == diffWithPrevious = NewCommand

CommandNext ==
    \/ \E uri, range \in BOOLEAN, commit \in CommitArgs : Execute(uri, commit, range)
    \/ \E gitUriSha \in UriShas : FromUriResolves(gitUriSha)
    \/ \E gitLog \in Logs : LogResolves(gitLog)
    \/ \E uncommitted \in BOOLEAN : UncommittedResolves(uncommitted)
    \/ \E status \in Statuses : StatusResolves(status)
    \/ LookupThrows

\* neither a node nor a command
ViewsAbsent == NodeAbsent /\ CommandInit

(***************************************************************************)
(* Specifications.                                                         *)
(***************************************************************************)
\* the tracker before it is constructed
TrackerAbsent ==
    /\ context = NewContext
    /\ listeners = FALSE
    /\ registered = 0
    /\ disposed = FALSE
    /\ runs = EmptyBag
    /\ leaked = {}
    /\ fired = NoEvent
    /\ activeEditor = "none"
    /\ isDirty = {}
    /\ gitEnabled = FALSE
    /\ editorTimer = "idle"
    /\ docTimer = "idle"
    /\ script = OffScript
    /\ limit = 0
    /\ remotes = RemoteFlags(0, {})

\* the executor alone
SpecExecInit == ExecInit /\ TrackerAbsent /\ GitAbsent /\ ViewsAbsent

SpecExec == SpecExecInit /\ [][ExecNext]_vars

\* the tracker alone
SpecTrackerInit == ExecInit /\ TrackerInit /\ GitAbsent /\ ViewsAbsent

SpecTracker == SpecTrackerInit /\ [][TrackerNext]_vars

\* the static functions of Git alone
SpecBuildersInit == ExecInit /\ TrackerAbsent /\ GitAbsent /\ ViewsAbsent

SpecBuilders == SpecBuildersInit /\ [][BuilderNext]_vars

SpecEditorsInit == ExecInit /\ EditorsInit /\ GitAbsent /\ ViewsAbsent

SpecEditors == SpecEditorsInit /\ [][EditorsNext]_vars

\* the tracker with its disposal
DisposalNext == TrackerNext \/ Dispose

SpecDisposal == SpecTrackerInit /\ [][DisposalNext]_vars

\* a tracker with git.enabled on, whose editors and documents change
SpecDocumentsInit == ExecInit /\ Constructed(MaxRuns) /\ gitEnabled /\ GitAbsent /\ ViewsAbsent

SpecDocuments == SpecDocumentsInit /\ [][DocumentsNext]_vars

\* the tracker with its remote flags
SpecRemotesInit == ExecInit /\ RemotesInit /\ GitAbsent /\ ViewsAbsent

SpecRemotes == SpecRemotesInit /\ [][RemotesNext]_vars

\* the builders that take a revision
SpecRevisionsInit == ExecInit /\ TrackerAbsent /\ RevisionInit /\ ViewsAbsent

SpecRevisions == SpecRevisionsInit /\ [][RevisionNext]_vars

\* Git.validateVersion alone
SpecVersionInit == ExecInit /\ TrackerAbsent /\ VersionInit /\ ViewsAbsent

SpecVersion == SpecVersionInit /\ [][ValidateVersion]_vars

\* a FileHistoryNode alone
SpecHistoryInit == ExecInit /\ TrackerAbsent /\ GitAbsent /\ NodeInit /\ CommandInit

SpecHistory == SpecHistoryInit /\ [][NodeNext]_vars

\* DiffWithPreviousCommand.execute alone
SpecCommandInit == ExecInit /\ TrackerAbsent /\ GitAbsent /\ ViewsAbsent

SpecCommand == SpecCommandInit /\ [][CommandNext]_vars

SpecGitInit == ExecInit /\ TrackerAbsent /\ GitInit /\ ViewsAbsent

SpecGit == SpecGitInit /\ [][GitNext]_vars

\* the executor, the tracker and the functions of Git side by side
Init == ExecInit /\ TrackerInit /\ GitInit /\ NodeInit /\ CommandInit

Next ==
    \/ ExecNext \/ BuilderNext \/ RevisionNext \/ DisposalNext \/ RemotesNext \/ GitNext
    \/ ValidateVersion \/ NodeNext \/ CommandNext

Spec == Init /\ [][Next]_vars

(***************************************************************************)
(* Claims about the executor, checked under SpecExec.                      *)
(***************************************************************************)
Finished(c) == calls[c].status \in {"resolved", "rejected"}

\* C1: single flight. At most one process per command key is running; a call
\* made while a process with its key is running spawns nothing and awaits that
\* process; and every call receives the outcome of the process it awaited
\* (its text, its failure, or the '' the default handler makes of the failure).
C1_SingleFlight ==
    /\ \A p, q \in DOMAIN procs :
          (/\ procs[p].status = "running"
           /\ procs[q].status = "running"
           /\ procs[p].command = procs[q].command) => p = q
    /\ \A c \in DOMAIN calls :
          /\ procs[calls[c].promise].command = calls[c].command
          /\ calls[c].overlap # 0 =>
                (~calls[c].spawned /\ calls[c].promise = calls[c].overlap)
          /\ Finished(c) =>
                LET p == calls[c].promise
                    v == calls[c].value
                IN IF procs[p].status = "ok"
                   THEN v.kind = "text" /\ v.proc = p
                   ELSE /\ procs[p].status = "failed"
                        /\ v.kind \in {"error", "empty"}
                        /\ v.kind = "error" => v.proc = p

\* Two overlapping identical calls shared one process and both received its
\* text; a third identical call made after it completed spawned a second one.
C1_Witness ==
    /\ Len(calls) = 3
    /\ calls[1].command = calls[2].command
    /\ calls[1].spawned /\ ~calls[2].spawned /\ calls[2].overlap = calls[1].promise
    /\ Finished(1) /\ Finished(2)
    /\ calls[1].value.kind = "text" /\ calls[2].value.kind = "text"
    /\ calls[2].value.proc = calls[1].promise
    /\ calls[3].command = calls[1].command
    /\ calls[3].spawned /\ calls[3].promise # calls[1].promise

\* C2: once the result of a process is known (its continuations have run) the
\* registry holds no entry for it, and a call made when no process with its key
\* is running spawns a fresh one.
C2_RemovedOnceKnown ==
    microtasks = <<>> =>
        /\ \A k \in DOMAIN pendingCommands :
              procs[pendingCommands[k]].status = "running"
        /\ \A c \in DOMAIN calls : calls[c].overlap = 0 => calls[c].spawned

\* C3: two calls that differ in cwd or in the argument vector never await the
\* same process.
C3_DistinctRequestsNotShared ==
    \A c, d \in DOMAIN calls :
        (calls[c].cwd # calls[d].cwd \/ calls[c].args # calls[d].args)
            => calls[c].promise # calls[d].promise

\* C4: a call whose process failed: with willHandleErrors it rejects with the
\* failure; without, it resolves to '' when the failure text matches a
\* GitWarnings pattern and rejects with the failure when it matches none.
C4_ErrorClassification ==
    \A c \in DOMAIN calls :
        (Finished(c) /\ procs[calls[c].promise].status = "failed") =>
            LET p == calls[c].promise
                matches == MatchesWarning(procs[p].text)
            IN IF calls[c].willHandleErrors
               THEN calls[c].status = "rejected" /\ calls[c].value = Thrown(p)
               ELSE IF matches
               THEN calls[c].status = "resolved" /\ calls[c].value = EmptyString
               ELSE calls[c].status = "rejected" /\ calls[c].value = Thrown(p)

\* One warning failure reached a default-handled call as '' and a
\* willHandleErrors call as the failure; a non-warning failure was re-thrown.
C4_Witness ==
    /\ \E c, d \in DOMAIN calls :
          /\ calls[c].promise = calls[d].promise
          /\ procs[calls[c].promise].status = "failed"
          /\ MatchesWarning(procs[calls[c].promise].text)
          /\ ~calls[c].willHandleErrors /\ calls[c].value = EmptyString
          /\ calls[d].willHandleErrors /\ calls[d].status = "rejected"
    /\ \E e \in DOMAIN calls :
          /\ ~calls[e].willHandleErrors /\ calls[e].status = "rejected"
          /\ procs[calls[e].promise].status = "failed"
          /\ ~MatchesWarning(procs[calls[e].promise].text)

(***************************************************************************)
(* Claims about GitContextTracker, checked under SpecTracker.              *)
(***************************************************************************)
Emitted == fired.reason # "none"

\* C5: in every reachable state, between the suspension points of a pending
\* re-evaluation too, state.blameable = true implies state.tracked = true and
\* state.dirty = false.
C5_BlameableImpliesTrackedClean ==
    context.blameable = "true" => (context.tracked = "true" /\ ~context.dirty)

\* C6: every event emitted with blameable = true is emitted in a state where
\* tracked is true (neither false nor undetermined) and dirty is false.
C6_TrueEventsTrackedClean ==
    (Emitted /\ fired.blameable = "true") =>
        (context.tracked = "true" /\ ~context.dirty)

\* A document that turned clean again made the tracker emit blameable = true.
C6_Witness ==
    /\ fired.reason = DocumentChanged
    /\ fired.blameable = "true"
    /\ fired.prev = "false"

\* the number of places where a sequence of emitted values changes value
Transitions(emitted) ==
    Cardinality({i \in 1..(Len(emitted) - 1) :
                    emitted[i].blameable # emitted[i + 1].blameable})

ScriptDone == script.phase = 3 /\ Quiet

\* C7: from a tracker with no active editor, an editor change to a tracked
\* clean file, then that document turning dirty, then clean, each processed to
\* completion: the emitted blameable values change exactly twice (true, false,
\* true), no blameable = true is emitted while the document is dirty, and the
\* tracker ends with blameable = true and tracked = true.
C7_EditorDirtyClean ==
    ScriptDone =>
        /\ Transitions(script.log) = 2
        /\ [i \in 1..Len(script.log) |-> script.log[i].blameable]
               = <<"true", "false", "true">>
        /\ \A i \in 1..Len(script.log) :
              script.log[i].blameable = "true" => ~script.log[i].dirty
        /\ context.blameable = "true"
        /\ context.tracked = "true"
        /\ ~context.dirty

\* The scenario ran to its end on the file f1.
C7_Witness ==
    /\ ScriptDone
    /\ script.file = "f1"
    /\ Len(script.log) = 3
    /\ context.editor = "f1"

\* C8: a re-evaluation whose lookup (getRepository, GitUri.fromUri or
\* isTracked) fails never leaves blameable = true.
C8_LookupFailureNotBlameable ==
    [][\A run \in BagToSet(runs) :
          LookupFails(run) => context'.blameable # "true"]_vars

\* what onBlameFailed(key) must do to the tracker
BlameFailedEffect(key) ==
    IF context.editor # "none" /\ key = CacheKey(context.editor)
    THEN /\ context'.blameable = "false"
         /\ context' = [context EXCEPT !.blameable = "false"]
         /\ IF context.blameable # "false"
            THEN /\ fired'.reason = BlameFailed
                 /\ fired'.blameable = "false"
                 /\ fired'.editor = context.editor
            ELSE fired'.reason = "none"
    ELSE /\ context' = context
         /\ fired'.reason = "none"
         /\ runs' = runs
         /\ leaked' = leaked

\* C9: a blame-failed notification for the key of the tracker's editor makes
\* blameable false whatever tracked and dirty are, with a blame-failed event
\* carrying false unless blameable was false already; a notification for
\* another key, or with no editor, changes nothing and emits nothing.
C9_BlameFailed ==
    [][\A key \in Files : BlameFails(key) => BlameFailedEffect(key)]_vars

\* A blame failure turned a tracked, clean, blameable editor unblameable.
C9_Witness ==
    /\ fired.reason = BlameFailed
    /\ fired.prev = "true"
    /\ context.tracked = "true"
    /\ ~context.dirty
    /\ context.blameable = "false"

\* C10: every event either carries a value different from the one stored just
\* before it, or comes from a forced full re-evaluation (an editor change or a
\* configuration (re)initialisation); document-changed, repo-changed and
\* blame-failed evaluations computing the stored value emit nothing.
C10_EventsOnChangeOrForce ==
    Emitted =>
        /\ fired.blameable # fired.prev \/ (fired.force /\ fired.reason = EditorChanged)
        /\ fired.reason \in {DocumentChanged, RepoChanged, BlameFailed}
              => fired.blameable # fired.prev

\* A forced re-evaluation emitted the value that was already stored.
C10_Witness ==
    /\ Emitted
    /\ fired.force
    /\ fired.blameable = fired.prev
    /\ fired.blameable = "true"

(***************************************************************************)
(* Claims about the static functions of Git, checked under SpecGit.        *)
(***************************************************************************)
RECURSIVE Zeros(_)
Zeros(n) == IF n = 0 THEN "" ELSE "0" \o Zeros(n - 1)

\* 40 zeros, an optional ^N, and one of the given endings
ZeroIds(endings) == {Zeros(40) \o c \o t : c \in CaretParts, t \in endings}

\* 40 hex characters with an optional ^N and/or ':' suffix
SuffixedHexIds == {b \o c \o t : b \in HexBases, c \in CaretParts, t \in {"", ":"}}

\* how many of the three classification predicates hold of the id classified
ClassesHeld ==
    (IF ret.isSha THEN 1 ELSE 0)
        + (IF ret.isStagedUncommitted THEN 1 ELSE 0)
        + (IF ret.isUncommitted THEN 1 ELSE 0)

\* C11: an id of 40 hex characters with an optional ^N and/or ':' suffix
\* satisfies exactly one of isSha, isStagedUncommitted and isUncommitted, and
\* no string satisfies two of them.
C11_ExactlyOneClass ==
    ret.fn = "classify" =>
        /\ ClassesHeld <= 1
        /\ arg.sha \in SuffixedHexIds => ClassesHeld = 1

\* C12 as stated: isStagedUncommitted holds exactly of 40 zeros followed by
\* ':', isUncommitted exactly of 40 zeros with an optional ^N and/or ':', and
\* the two constants are 40 zeros with ':' and 40 zeros.
C12_StagedIsZerosColon ==
    /\ stagedUncommittedSha = Zeros(40) \o ":"
    /\ uncommittedSha = Zeros(40)
    /\ ret.fn = "classify" =>
          /\ ret.isStagedUncommitted <=> (arg.sha = Zeros(40) \o ":")
          /\ ret.isUncommitted <=> (arg.sha \in ZeroIds({"", ":"}))

\* C12 amended: isStagedUncommitted holds exactly of 40 zeros, an optional ^N,
\* and ':'; the rest as stated.
C12_StagedIsZerosCaretColon ==
    /\ stagedUncommittedSha = Zeros(40) \o ":"
    /\ uncommittedSha = Zeros(40)
    /\ ret.fn = "classify" =>
          /\ ret.isStagedUncommitted <=> (arg.sha \in ZeroIds({":"}))
          /\ ret.isUncommitted <=> (arg.sha \in ZeroIds({"", ":"}))

\* 40 zeros with a parent marker and ':' were classified staged-uncommitted.
C12_Witness ==
    /\ ret.fn = "classify"
    /\ arg.sha = Zeros(40) \o "^1:"
    /\ ret.isStagedUncommitted
    /\ ret.isUncommitted

\* C13: shortenSha gives "index" for a staged-uncommitted id, "" for an
\* uncommitted one, and otherwise the first 8 characters, except that with a
\* '^' at an index above 6 the result is a beginning of the id (of at most 8
\* characters) followed by the complete suffix of the id from the caret on.
C13_ShortenSha ==
    ret.fn = "shortenSha" =>
        LET id == arg.sha
            caret == IndexOf(id, "^")
            suffix == SubstringFrom(id, caret)
            head == Substring(ret.value, 0, Len(ret.value) - Len(suffix))
        IN IF isStagedUncommitted(id) THEN ret.value = "index"
           ELSE IF isUncommitted(id) THEN ret.value = ""
           ELSE IF caret > 6
           THEN /\ EndsWith(ret.value, suffix)
                /\ Len(head) \in 1..8
                /\ StartsWith(id, head)
           ELSE ret.value = Substring(id, 0, 8)

\* A full id with a two-digit parent marker kept the whole marker.
C13_Witness ==
    /\ ret.fn = "shortenSha"
    /\ arg.sha = "a1b2c3d4e5f60718293a4b5c6d7e8f9012345678^12"
    /\ ret.value = "a1b2c3^12"

\* C14 as stated: with a non-empty root, the second component is the
\* normalized root; the first is the normalized fileName with the root removed
\* exactly when it starts, ignoring case, with the root followed by a
\* separator, and then root + '/' + file is the normalized fileName up to the
\* case of the root part; otherwise the normalized fileName.
C14_StripsRootAndSeparator ==
    (ret.fn = "splitPath" /\ arg.repoPath.defined /\ arg.repoPath.value # "") =>
        LET name == ReplaceBackslashes(arg.fileName)
            root == ReplaceBackslashes(arg.repoPath.value)
            joined == root \o "/" \o ret.file
        IN /\ ret.root = Some(root)
           /\ IF StartsWith(ToLowerCase(name), ToLowerCase(root \o "/"))
              THEN /\ ret.file = SubstringFrom(name, Len(root) + 1)
                   /\ ToLowerCase(Substring(joined, 0, Len(root)))
                          = ToLowerCase(Substring(name, 0, Len(root)))
                   /\ SubstringFrom(joined, Len(root)) = SubstringFrom(name, Len(root))
              ELSE ret.file = name

\* C14 amended: the same with "the root followed by a separator" read as the
\* root with a '/' appended unless it already ends with one.
C14_StripsTerminatedRoot ==
    (ret.fn = "splitPath" /\ arg.repoPath.defined /\ arg.repoPath.value # "") =>
        LET name == ReplaceBackslashes(arg.fileName)
            root == ReplaceBackslashes(arg.repoPath.value)
            terminated == IF EndsWith(root, "/") THEN root ELSE root \o "/"
            joined == terminated \o ret.file
        IN /\ ret.root = Some(root)
           /\ IF StartsWith(ToLowerCase(name), ToLowerCase(terminated))
              THEN /\ ret.file = SubstringFrom(name, Len(terminated))
                   /\ ToLowerCase(Substring(joined, 0, Len(terminated)))
                          = ToLowerCase(Substring(name, 0, Len(terminated)))
                   /\ SubstringFrom(joined, Len(terminated))
                          = SubstringFrom(name, Len(terminated))
              ELSE ret.file = name
           /\ (arg.fileName = "/repo/src/a.ts" /\ arg.repoPath = Some("/repo"))
                  => (ret.file = "src/a.ts" /\ ret.root = Some("/repo"))
           /\ (arg.fileName = "/repository/a.ts" /\ root \in {"/repo", "/repo/"})
                  => ret.file = "/repository/a.ts"

\* A file under a root given with a trailing separator and in another case
\* was stripped of it.
C14_Witness ==
    /\ ret.fn = "splitPath"
    /\ arg.fileName = "/Repo/src/a.ts"
    /\ arg.repoPath = Some("/repo/")
    /\ ret.file = "src/a.ts"
    /\ ret.root = Some("/repo/")

\* C15 as stated: without a root, extract gives (basename(fileName),
\* dirname(fileName)); without extract, fileName and the absent root are
\* returned unchanged.
C15_ExtractsOrPassesThrough ==
    (ret.fn = "splitPath" /\ ~arg.repoPath.defined) =>
        IF arg.extract
        THEN ret.file = basename(arg.fileName) /\ ret.root = Some(dirname(arg.fileName))
        ELSE ret.file = arg.fileName /\ ret.root = Undefined

\* C15 amended: the same, each returned string with its backslashes replaced
\* by '/'.
C15_ExtractsOrPassesNormalized ==
    (ret.fn = "splitPath" /\ ~arg.repoPath.defined) =>
        /\ IF arg.extract
           THEN /\ ret.file = ReplaceBackslashes(basename(arg.fileName))
                /\ ret.root = Some(ReplaceBackslashes(dirname(arg.fileName)))
           ELSE /\ ret.file = ReplaceBackslashes(arg.fileName)
                /\ ret.root = Undefined
        /\ (arg.fileName = "/a/b/c.ts" /\ arg.extract)
               => (ret.file = "c.ts" /\ ret.root = Some("/a/b"))

\* A name with a backslash in its last component was extracted and normalized.
C15_Witness ==
    /\ ret.fn = "splitPath"
    /\ ~arg.repoPath.defined
    /\ arg.extract
    /\ arg.fileName = "/a/b\\c.ts"
    /\ ret.file = "b/c.ts"
    /\ ret.root = Some("/a")

\* seq with every field equal to old replaced by new
ReplaceField(seq, old, new) ==
    [i \in DOMAIN seq |-> IF seq[i] = old THEN new ELSE seq[i]]

\* seq without the fields equal to f
RemoveField(seq, f) == SelectSeq(seq, LAMBDA x : x # f)

\* C19 as stated: the stash format has the fields of the log format, in
\* order, with 'parents %P' replaced by 'reflog-selector %gd'.
C19_StashIsLogWithSelector ==
    (ret.fn = "fields" /\ arg.params = "stash") =>
        /\ ret.value = ReplaceField(FormatOf(defaultLogParams),
                                    "parents %P", "reflog-selector %gd")
        /\ ret.value = <<"%H -", "author %an", "author-date %at",
                         "reflog-selector %gd", "summary %B", "filename ?">>

\* C19 amended: the stash format has the fields of the log format, in order,
\* without 'author %an' and with 'parents %P' replaced by
\* 'reflog-selector %gd'.
C19_StashIsLogWithoutAuthor ==
    (ret.fn = "fields" /\ arg.params = "stash") =>
        /\ ret.value = RemoveField(ReplaceField(FormatOf(defaultLogParams),
                                                "parents %P", "reflog-selector %gd"),
                                   "author %an")
        /\ ret.value = <<"%H -", "author-date %at",
                         "reflog-selector %gd", "summary %B", "filename ?">>

\* The fields of the stash format were listed.
C19_Witness ==
    /\ ret.fn = "fields"
    /\ arg.params = "stash"
    /\ Len(ret.value) = 5
    /\ ret.value[3] = "reflog-selector %gd"

(***************************************************************************)
(* Claims about the command builders, checked under SpecBuilders.          *)
(***************************************************************************)
\* C16: the argument vector of every process is '-c', 'core.quotepath=false',
\* '-c', 'color.ui=false' followed by the arguments the builder passed to
\* gitCommand, in order; and every process was spawned by such a call.
C16_SafetyPrefix ==
    /\ \A c \in DOMAIN calls :
          calls[c].spawned =>
              /\ procs[calls[c].promise].args
                     = <<"-c", "core.quotepath=false", "-c", "color.ui=false">>
                           \o calls[c].args
              /\ calls[c].builder = "stash_list" =>
                     SubSeq(procs[calls[c].promise].args, 5, 6) = <<"stash", "list">>
    /\ \A p \in DOMAIN procs :
          \E c \in DOMAIN calls : calls[c].spawned /\ calls[c].promise = p

\* Git.show and Git.revparse_currentBranch each spawned a process.
C16_Witness ==
    /\ \E c \in DOMAIN calls :
          /\ calls[c].builder = "show"
          /\ calls[c].spawned
          /\ procs[calls[c].promise].args
                 = <<"-c", "core.quotepath=false", "-c", "color.ui=false",
                     "show", "HEAD:./src/a.ts">>
    /\ \E c \in DOMAIN calls :
          /\ calls[c].builder = "revparse_currentBranch"
          /\ calls[c].spawned
          /\ Len(procs[calls[c].promise].args) = 9

\* C17: a call whose requested encoding is unspecified or not a known encoding
\* (one Git.getEncoding maps to 'utf8'), and whose own process succeeds,
\* resolves to that process's output as UTF-8 text.
C17_UnknownEncodingAsUtf8 ==
    \A c \in DOMAIN calls :
        (/\ Finished(c)
         /\ TakesEncoding(calls[c].builder)
         /\ calls[c].spawned
         /\ procs[calls[c].promise].status = "ok"
         /\ getEncoding(calls[c].requested) = "utf8")
        => /\ calls[c].status = "resolved"
           /\ calls[c].value = [kind |-> "text", proc |-> calls[c].promise,
                                mode |-> "utf8", dec |-> ""]
           /\ calls[c].result.kind = "value"

\* the first line of the message of a failure text: what follows "Error: ",
\* up to the first line break
FirstLineOfMessage(text, line) ==
    \E n \in 0..(Len(text) - 7) :
        /\ line = SubSeq(text, 8, 7 + n)
        /\ \A i \in 8..(7 + n) : SubSeq(text, i, i) # "\n"
        /\ 7 + n < Len(text) => SubSeq(text, 8 + n, 8 + n) = "\n"

\* pat occurs in the failure text
Occurs(text, pat) == \E i \in 1..Len(text) : MatchAt(text, pat, i)

\* what the claim expects of revparse_currentBranch for each failure text:
\* "undefined", "line" (with the line), "empty" or "raise"
ExpectedOfCurrentBranch ==
    [t \in BuilderFailureTexts |->
        IF Occurs(t, "HEAD does not point to a branch")
        THEN [outcome |-> "undefined", line |-> ""]
        ELSE IF Occurs(t, "no upstream configured for branch")
        THEN [outcome |-> "line",
              line |-> CHOOSE l \in {SubSeq(t, 8, m) : m \in 7..Len(t)} :
                           FirstLineOfMessage(t, l)]
        ELSE IF \E w \in DOMAIN GitWarnings : RegexTest(GitWarnings[w], t)
        THEN [outcome |-> "empty", line |-> ""]
        ELSE [outcome |-> "raise", line |-> ""]]

\* C18: Git.revparse_currentBranch, when its git process fails, returns
\* undefined for 'HEAD does not point to a branch', the first line of the
\* failure message for 'no upstream configured for branch', '' for any other
\* expected warning, and re-raises any other failure.
C18_CurrentBranchFailures ==
    \A c \in DOMAIN calls :
        (/\ Finished(c)
         /\ calls[c].builder = "revparse_currentBranch"
         /\ procs[calls[c].promise].status = "failed")
        => LET e == ExpectedOfCurrentBranch[procs[calls[c].promise].text]
               r == calls[c].result
           IN CASE e.outcome = "undefined" -> r = [kind |-> "undefined", text |-> ""]
                [] e.outcome = "line" -> r = [kind |-> "string", text |-> e.line]
                [] e.outcome = "empty" -> r = [kind |-> "string", text |-> ""]
                [] e.outcome = "raise" -> r = [kind |-> "error", text |-> ""]

\* A current-branch lookup failed for want of an upstream and returned the
\* first line of the message.
C18_Witness ==
    \E c \in DOMAIN calls :
        /\ calls[c].builder = "revparse_currentBranch"
        /\ Finished(c)
        /\ procs[calls[c].promise].status = "failed"
        /\ calls[c].result
               = [kind |-> "string",
                  text |-> "fatal: no upstream configured for branch 'master'"]

(***************************************************************************)
(* Claims about overlapping evaluations, checked under SpecEditors.        *)
(***************************************************************************)
\* C20: once no debounced call is pending and no updateContext is suspended,
\* the context describes the active editor (uri, repo, dirty and tracked are
\* those of its document) and an event fired by the step that finished
\* carries that editor and the blameable value of that data.
C20_ContextDescribesLastEditor ==
    Quiet =>
        /\ context.editor = activeEditor
        /\ context.uri = activeEditor
        /\ context.repo = (IF activeEditor = "none" THEN "none" ELSE RepoOf(activeEditor))
        /\ context.dirty = (activeEditor \in isDirty)
        /\ context.tracked \in (IF activeEditor = "none" THEN {"false"}
                                 ELSE IsTrackedAnswers(activeEditor))
        /\ Emitted =>
               /\ fired.editor = activeEditor
               /\ fired.blameable
                      = Bool(context.tracked = "true" /\ activeEditor \notin isDirty)

(***************************************************************************)
(* Further claims about the executor, checked under SpecExec.              *)
(***************************************************************************)
\* C21: every call that receives the output of a process, whether it spawned
\* the process or joined it, receives it according to its own encoding: the
\* process's utf8 text when it asked for utf8, and otherwise the process's raw
\* bytes, as they are for binary and decoded with its encoding for any other.
C21_OutputInOwnEncoding ==
    \A c \in DOMAIN calls :
        (Finished(c) /\ calls[c].value.kind = "text") =>
            /\ calls[c].value.proc = calls[c].promise
            /\ calls[c].value.mode
                   = (IF calls[c].encoding = "utf8" THEN "utf8" ELSE "binary")
            /\ calls[c].value.dec
                   = (IF calls[c].encoding \in {"utf8", "binary"}
                      THEN "" ELSE calls[c].encoding)

(***************************************************************************)
(* Further claims about GitContextTracker, checked under SpecTracker.      *)
(***************************************************************************)
\* the step completes an evaluation other than a blame failure: updateContext
\* reaches its end (after its last await, or without awaiting), or
\* onTextDocumentChanged stores a changed dirty bit
EvaluationCompletes ==
    \/ \E run \in BagToSet(runs), tracked \in {"true", "false"} : AfterIsTracked(run, tracked)
    \/ DocTimerFires /\ context'.dirty # context.dirty
    \/ EditorTimerFires /\ editorTimer # context.editor /\ runs' = runs
    \/ ConfigurationChanges /\ runs' = runs
    \/ \E repo \in Repos : RepositoryChanges(repo) /\ runs' = runs

\* C22: when an evaluation other than a blame failure completes, the stored
\* blameable is tracked AND NOT dirty of the stored state: true exactly when
\* the stored state is tracked and clean (and not true while tracked is still
\* undefined).
C22_BlameableRecomputed ==
    [][EvaluationCompletes =>
          IF context'.tracked = "undefined"
          THEN context'.blameable # "true"
          ELSE context'.blameable = Bool(context'.tracked = "true" /\ ~context'.dirty)]_vars

\* A repository change re-evaluated a tracked clean file whose blameable was
\* false to blameable.
C22_Witness ==
    /\ fired.reason = RepoChanged
    /\ fired.prev = "false"
    /\ fired.blameable = "true"
    /\ context.blameable = "true"
    /\ context.tracked = "true"
    /\ ~context.dirty

\* what onTextDocumentChanged must do for a notification about `document`
\* whose isDirty is dirtyNow
DocumentChangedEffect(document, dirtyNow) ==
    IF context.editor # "none" /\ document = context.editor /\ dirtyNow # context.dirty
    THEN /\ context' = [context EXCEPT
                            !.dirty = dirtyNow,
                            !.blameable = CASE context.tracked = "true" -> Bool(~dirtyNow)
                                            [] context.tracked = "false" -> "false"
                                            [] OTHER -> "undefined"]
         /\ runs' = runs
         /\ leaked' = leaked
    ELSE /\ context' = context
         /\ runs' = runs
         /\ leaked' = leaked
         /\ fired'.reason = "none"

\* C23: a document-changed notification for the document of the tracker's
\* editor whose isDirty differs from the stored dirty bit changes only dirty
\* and the derived blameable (editor, repo, subscription, uri and tracked stay,
\* no lookup is started); a notification for another document, or with the
\* stored dirty bit, changes nothing and emits nothing.
C23_DocumentChangeIsIncremental ==
    [][DocTimerFires => DocumentChangedEffect(docTimer, docTimer \in isDirty)]_vars

\* An edit of the tracked, clean active document stored dirty and made it
\* unblameable, with the bindings as before.
C23_Witness ==
    /\ fired.reason = DocumentChanged
    /\ fired.prev = "true"
    /\ fired.blameable = "false"
    /\ context.dirty
    /\ context.tracked = "true"
    /\ context.uri = context.editor
    /\ context.repo = RepoOf(context.editor)
    /\ runs = EmptyBag

\* C30: at most one set of listeners is live, and one is exactly when
\* git.enabled was true at the last configuration change processed; a
\* configuration change that does not affect git.enabled leaves the listeners
\* and the context as they are, starts nothing and emits nothing.
C30_ListenersFollowGitEnabled ==
    /\ [](/\ registered \in {0, 1}
          /\ (registered = 1) <=> gitEnabled
          /\ listeners <=> gitEnabled)
    /\ [][OtherConfigurationChanges =>
             /\ listeners' = listeners
             /\ registered' = registered
             /\ context' = context
             /\ runs' = runs
             /\ leaked' = leaked
             /\ fired'.reason = "none"]_vars

\* git.enabled was switched off while a debounced editor change was pending:
\* the listeners that scheduled it are gone.
C30_Witness ==
    /\ ~gitEnabled
    /\ registered = 0
    /\ ~listeners
    /\ editorTimer # "idle"

(***************************************************************************)
(* Claims about disposal, checked under SpecDisposal.                      *)
(***************************************************************************)
\* C29: once dispose() has been called no step emits a blameability event or
\* changes what the command contexts ActiveFileIsTracked and ActiveIsBlameable
\* mirror (the stored tracked and blameable).
C29_SilentAfterDispose ==
    [][disposed =>
          /\ fired'.reason = "none"
          /\ context'.tracked = context.tracked
          /\ context'.blameable = context.blameable]_vars

(***************************************************************************)
(* Further claims about overlapping evaluations, checked under SpecEditors.*)
(***************************************************************************)
\* C28: the only live repository subscription is the one the context holds,
\* and it is a subscription to the repository the context stores: no
\* subscription the context no longer holds stays live.
C28_OneLiveSubscription ==
    /\ leaked = {}
    /\ context.repoDisposable # "none" => context.repoDisposable = context.repo

(***************************************************************************)
(* Claims about the debounced document notifications, checked under        *)
(* SpecDocuments.                                                          *)
(***************************************************************************)
\* C26: when every document-changed notification has been processed (no
\* debounced call is pending and no evaluation is suspended), the stored dirty
\* bit is the isDirty of the document of the tracker's editor.
C26_DirtyBitCatchesUp ==
    (Quiet /\ context.editor # "none") => (context.dirty <=> context.editor \in isDirty)

\* the step runs no handler
NoEvaluation == context' = context /\ runs' = runs /\ leaked' = leaked /\ fired'.reason = "none"

\* C25: a notification runs no handler, it only replaces the argument of the
\* pending debounced call; the pending call runs the handler once, clearing
\* itself, with the argument of the latest notification and the document's
\* isDirty (or the tracker's editor) as they are when it runs.
C25_OneTrailingEvaluation ==
    [][/\ \A document \in Files, dirtyNow \in BOOLEAN :
             DocumentChanges(document, dirtyNow) =>
                 NoEvaluation /\ (registered > 0 => docTimer' = document)
       /\ \A editor \in Files \cup {"none"} :
             ActiveEditorChanges(editor) =>
                 NoEvaluation /\ (registered > 0 => editorTimer' = editor)
       /\ DocTimerFires =>
             docTimer' = "idle" /\ DocumentChangedEffect(docTimer, docTimer \in isDirty)
       /\ EditorTimerFires =>
             /\ editorTimer' = "idle"
             /\ IF editorTimer = context.editor
                THEN NoEvaluation
                ELSE context'.editor = editorTimer /\ context'.repoDisposable = "none"]_vars

\* The active document became dirty and another document changed within the
\* same window; the one evaluation that followed was for the other document,
\* so the stored dirty bit is still the old one.
C25_Witness ==
    /\ Quiet
    /\ context.editor # "none"
    /\ context.uri = context.editor
    /\ context.editor \in isDirty
    /\ ~context.dirty

(***************************************************************************)
(* Claims about the remote flags, checked under SpecRemotes.               *)
(***************************************************************************)
HasRemote(repo) == repo # "none" /\ repo \in remotes.having

\* C27: when an updateRemotes run has completed and nothing is pending,
\* ActiveHasRemotes is true exactly when the bound repository has a remote,
\* HasRemotes is true exactly when some known repository has one, and
\* ActiveHasRemotes implies HasRemotes.
C27_RemoteFlagsDescribeRepositories ==
    (Quiet /\ remotes.runs = EmptyBag /\ remotes.any # "unset") =>
        /\ remotes.active = Bool(HasRemote(context.repo))
        /\ remotes.any = Bool(\E i \in DOMAIN KnownRepositories :
                                  HasRemote(KnownRepositories[i]))
        /\ (remotes.active = "true" => remotes.any = "true")

\* the bindings a repository-changed notification leaves alone
SameBindings ==
    /\ context'.editor = context.editor
    /\ context'.repo = context.repo
    /\ context'.repoDisposable = context.repoDisposable
    /\ context'.uri = context.uri
    /\ context'.dirty = context.dirty
    /\ leaked' = leaked

\* the evaluation ends with `tracked`: tracked is stored, blameable is
\* recomputed, and an event is fired only if it differs from the stored one
RecomputedWith(tracked) ==
    /\ context'.tracked = tracked
    /\ context'.blameable = TrackedAndNotDirty(tracked, context.dirty)
    /\ fired'.reason # "none" =>
          /\ fired'.reason = RepoChanged
          /\ fired'.blameable = context'.blameable
          /\ context'.blameable # context.blameable

\* C24: a change of the bound repository leaves editor, repo, subscription,
\* uri and dirty as they are, asks isTracked for the current uri (when there is
\* one) and starts updateRemotes for the bound repository; when the answer
\* arrives only tracked and the derived blameable change, with an event only
\* if blameable differs from the stored one.
C24_RepoChangeRequeriesTracked ==
    [][/\ \A repo \in Repos :
             (RepositoryChanges(repo) /\ repo = context.repoDisposable) =>
                 /\ SameBindings
                 /\ CopiesIn([pc |-> "active", repo |-> repo, index |-> 0], remotes'.runs)
                      > CopiesIn([pc |-> "active", repo |-> repo, index |-> 0], remotes.runs)
                 /\ IF context.uri # "none"
                    THEN /\ runs' = runs (+) SetToBag({[reason |-> RepoChanged, force |-> FALSE,
                                                        pc |-> "isTracked",
                                                        file |-> context.uri]})
                         /\ context' = context
                         /\ fired'.reason = "none"
                    ELSE runs' = runs /\ RecomputedWith("false")
       /\ \A run \in BagToSet(runs), tracked \in {"true", "false"} :
             (AfterIsTracked(run, tracked) /\ run.reason = RepoChanged) =>
                 SameBindings /\ RecomputedWith(tracked)]_vars

\* The bound repository changed, git answered that the file is no longer
\* tracked, and the evaluation fired the event for the new blameable.
C24_Witness ==
    /\ fired.reason = RepoChanged
    /\ context.repoDisposable # "none"
    /\ context.uri # "none"
    /\ context.tracked = "false"
    /\ fired.prev = "true"
    /\ remotes.runs # EmptyBag

(***************************************************************************)
(* Claims about the builders that take a revision, checked under           *)
(* SpecRevisions.                                                          *)
(***************************************************************************)
\* the builder of arg is given a staged-uncommitted id
StagedGiven ==
    \/ arg.sha.defined /\ isStagedUncommitted(arg.sha.value)
    \/ arg.sha2.defined /\ isStagedUncommitted(arg.sha2.value)

\* s holds a staged-uncommitted id: 40 zeros, then ':' or '^' before anything else
HoldsStagedId(s) ==
    \E i \in 1..Len(s) :
        /\ MatchAt(s, uncommittedSha, i)
        /\ i + ShaLength <= Len(s)
        /\ SubSeq(s, i + ShaLength, i + ShaLength) \in {":", "^"}

\* a follows b in the argument vector v
Adjacent(v, a, b) == \E i \in 1..(Len(v) - 1) : v[i] = a /\ v[i + 1] = b

\* C31: no spawned git process has an argument that is, or holds, a
\* staged-uncommitted id; given one, diff passes '--staged', show asks for
\* ':./<file>', and blame passes '--contents -' with the output of a show of
\* ':./<file>' as its standard input.
C31_StagedIdNeverSpawned ==
    /\ \A p \in DOMAIN procs : \A i \in DOMAIN procs[p].args :
          ~HoldsStagedId(procs[p].args[i])
    /\ StagedGiven =>
          \A c \in DOMAIN calls :
              LET args == procs[calls[c].promise].args
              IN /\ calls[c].builder = "diff" =>
                      \E i \in DOMAIN args : args[i] = "--staged"
                 /\ calls[c].builder = "show" =>
                      args = SafetyPrefix \o <<"show", ":./src/a.ts">>
                 /\ calls[c].builder = "blame" =>
                      /\ Adjacent(args, "--contents", "-")
                      /\ c > 1
                      /\ calls[c - 1].builder = "show"
                      /\ calls[c].spawned => procs[calls[c].promise].stdin = c - 1

\* Git.blame was given the staged-uncommitted id and spawned git blame with
\* the show of the index as its standard input.
C31_Witness ==
    /\ arg.kind = "revision"
    /\ arg.builder = "blame"
    /\ StagedGiven
    /\ \E p \in DOMAIN procs : procs[p].stdin # 0

\* an uncommitted id that is not the staged one
UncommittedOnly(sha) == isUncommitted(sha) /\ ~isStagedUncommitted(sha)

\* C32: Git.show with an uncommitted (not staged) id throws and leaves the
\* executor as it is (nothing spawned, pendingCommands unchanged); with the
\* staged id it does not throw and asks for ':./<file>'; a show whose process
\* failed with "Path ... does not exist in" or "Path ... exists on disk, but
\* not in" returns undefined.
C32_ShowOfPseudoIds ==
    /\ [][(Revision /\ arg.builder = "show") =>
            /\ UncommittedOnly(arg.sha.value) =>
                  /\ ret'.thrown
                  /\ pendingCommands' = pendingCommands
                  /\ procs' = procs
                  /\ calls' = calls
            /\ isStagedUncommitted(arg.sha.value) =>
                  /\ ~ret'.thrown
                  /\ Len(calls') = Len(calls) + 1
                  /\ calls'[Len(calls')].args = <<"show", ":./src/a.ts">>]_vars
    /\ [](\A c \in DOMAIN calls :
            (/\ calls[c].builder = "show"
             /\ Finished(c)
             /\ procs[calls[c].promise].text \in
                    {"Error: fatal: Path 'src/a.ts' does not exist in 'HEAD'",
                     "Error: fatal: Path 'src/a.ts' exists on disk, but not in 'HEAD'"})
            => calls[c].result = ReturnsUndefined)

\* Git.show was called with the uncommitted id: it threw and spawned nothing.
C32_Witness ==
    /\ arg.kind = "revision"
    /\ arg.builder = "show"
    /\ UncommittedOnly(arg.sha.value)
    /\ ret.fn = "show"
    /\ ret.thrown
    /\ procs = <<>>
    /\ pendingCommands = << >>

\* Git.show's process failed with "exists on disk, but not in" and the call
\* returned undefined.
C32_ReturnedUndefined ==
    \E c \in DOMAIN calls :
        /\ calls[c].builder = "show"
        /\ procs[calls[c].promise].text
              = "Error: fatal: Path 'src/a.ts' exists on disk, but not in 'HEAD'"
        /\ calls[c].result = ReturnsUndefined

(***************************************************************************)
(* Claims about Git.validateVersion, checked under SpecVersion.            *)
(***************************************************************************)
\* the major and minor numbers the version text of arg was made of
ReportedMajor == CHOOSE a \in 0..MaxVersion : SubSeq(arg.version, 1, Len(ToString(a)) + 1) = ToString(a) \o "."

ReportedMinor ==
    CHOOSE b \in 0..MaxVersion :
        LET head == ToString(ReportedMajor) \o "." \o ToString(b) \o "."
        IN SubSeq(arg.version, 1, Len(head)) = head

\* C33: validateVersion(major, minor) is true exactly when git's version is
\* at least (major, minor) in version order: gitMajor > major, or
\* gitMajor = major and gitMinor >= minor.
C33_VersionOrder ==
    ret.fn = "validateVersion" =>
        (ret.value <=> \/ ReportedMajor > arg.major
                       \/ ReportedMajor = arg.major /\ ReportedMinor >= arg.minor)

(***************************************************************************)
(* Claims about FileHistoryNode, checked under SpecHistory.                *)
(***************************************************************************)
\* one of the calls that look at explorer.autoRefresh
Called == getChildren \/ getTreeItem \/ onAutoRefreshChanged

\* C34: whatever getChildren, getTreeItem and onAutoRefreshChanged calls and
\* toggles of explorer.autoRefresh happen, the node holds a subscription exactly
\* when autoRefresh was enabled at the most recent of the calls (a call leaves it
\* held exactly when it finds autoRefresh enabled, and nothing else changes it),
\* it never holds more than one subscription, every subscription made and not
\* disposed is the held one, and a call that finds autoRefresh disabled disposes
\* the held one.
C34_SubscriptionFollowsAutoRefresh ==
    /\ [](/\ node.subscriptions <= 1
          /\ node.disposable <=> node.subscriptions = 1)
    /\ [][/\ Called => /\ node'.disposable = node.autoRefresh
                        /\ (node.disposable /\ ~node.autoRefresh)
                               => node'.subscriptions = node.subscriptions - 1
          /\ ~Called => /\ node'.disposable = node.disposable
                         /\ node'.subscriptions = node.subscriptions]_vars

\* a held subscription was disposed by a call that found autoRefresh disabled, and
\* none is left
C34_Witness ==
    /\ node.did = "disposed"
    /\ ~node.autoRefresh
    /\ ~node.disposable
    /\ node.subscriptions = 0

\* autoRefresh was found enabled again while the subscription was held, and it is
\* still the only one
C34_Kept == node.did = "kept" /\ node.disposable /\ node.subscriptions = 1

C35_NoHistory ==
    /\ node.returned.fn = "getChildren"
    /\ ~node.returned.thrown
    /\ ~node.returned.log.defined
    /\ node.returned.children = <<MessageNode("No file history")>>

\* the file was uncommitted and staged for addition: no node for it
C35_Unstaged ==
    /\ node.returned.fn = "getChildren"
    /\ ~node.returned.thrown
    /\ node.returned.uncommitted
    /\ node.returned.status = GitStatusFile("A")
    /\ Len(node.returned.children) = Len(node.returned.log.commits)
    /\ node.returned.log.commits # <<>>

(***************************************************************************)
(* Claims about DiffWithPreviousCommand, checked under SpecCommand.        *)
(***************************************************************************)
\* an invocation of execute has ended
Ended == diffWithPrevious.pc = "idle" /\ diffWithPrevious.outcome.kind # "pending"

\* the DiffWith of lines 119-133 was dispatched
FinalDiffWith ==
    /\ diffWithPrevious.outcome.kind = "dispatched"
    /\ diffWithPrevious.outcome.what = "DiffWith"
    /\ diffWithPrevious.outcome.rhs \notin {"", stagedUncommittedSha}

\* how an invocation may end, but for the exception
EndsAsStated ==
    LET c == diffWithPrevious
        o == c.outcome
    IN /\ o.kind = "none" <=> ~c.uri
       /\ o.kind = "warning" => (c.sha = Some(deletedSha) \/ ~c.log.defined)
       /\ o.kind = "dispatched" => o.what \in {"DiffWith", "DiffWithWorking"}
       /\ FinalDiffWith =>
              /\ c.commit.defined
              /\ o.rhs = c.commit.sha
              /\ o.lhs = IF c.commit.previousSha.defined
                         THEN c.commit.previousSha.value
                         ELSE deletedSha

\* C36: every invocation of execute ends in exactly one of: no action (there is no
\* uri), a warning message (the sha is the deleted sentinel, or the log is
\* undefined), an error message (a lookup threw), or one dispatched DiffWith or
\* DiffWithWorking command; it never ends by an exception that reaches the caller,
\* also when the log holds no commits; and the final DiffWith has the commit's
\* previousSha on the left, or the deleted sentinel when the commit has none.
C36_ExecuteNeverThrows ==
    Ended => /\ diffWithPrevious.outcome.kind \in {"none", "warning", "error", "dispatched"}
             /\ EndsAsStated

\* the same, where the only exception let through is the one of a log without
\* commits
C36_ThrowsOnEmptyLogOnly ==
    Ended => /\ diffWithPrevious.outcome.kind
                    \in {"none", "warning", "error", "dispatched", "rejected"}
             /\ diffWithPrevious.outcome.kind = "rejected" =>
                    /\ diffWithPrevious.log.defined
                    /\ diffWithPrevious.log.commits = <<>>
             /\ EndsAsStated

\* the final DiffWith was dispatched for a commit without previousSha
C36_DeletedOnTheLeft ==
    /\ Ended
    /\ FinalDiffWith
    /\ diffWithPrevious.outcome.lhs = deletedSha

====
